---- MODULE Spec2Model ----
(***************************************************************************)
(* A model of the gesture / expression recognition and mapping engine of   *)
(* webjarvis: HandTracker, FaceTracker (the expression-aware one),         *)
(* GestureMapper, and the avatar side: LipSyncController, ExpressionMapper *)
(* and the Live2DController calls they make.                               *)
(*                                                                         *)
(* Fixed point: landmark coordinates and distances are integers in         *)
(* thousandths of the normalized unit (1.0 = 1000); times are integers in  *)
(* milliseconds.  Square roots are floored, divisions are \div.            *)
(***************************************************************************)
EXTENDS Integers, Sequences, FiniteSets, TLC

VARIABLES
    now,              \* Date.now(), ms
    \* ---- HandTracker (src/unnamed/part_000:1-435)
    handLandmarker,   \* this.handLandmarker non-null
    handInitializing, \* module-level isInitializing
    handPollers,      \* callers of initialize() that poll for the end of a load
    handInitialized,  \* module-level isInitialized
    gestureState,     \* this.gestureState
    handLastVideoTime,\* this.lastVideoTime
    handTimers,       \* pending setTimeout callbacks that clear clickCooldown: ms left
    handEvents,       \* callbacks invoked by the last HandTracker step, in order
    handReturn,       \* what the last processVideoFrame call returned
    handCall,         \* video.currentTime of the call made in the last step, if any (observer)
    handFrame,        \* kind of the last processed hand frame (observer)
    handLabels,       \* raw handedness labels of the last processed hand frame (observer)
    handInput,        \* what the last processed frame showed of its primary hand (observer)
    handOutcome,      \* the path the last processVideoFrame call took (observer)
    sinceClick,       \* ms since the last onAirClick of this hand run, capped (observer)
    clickGap,         \* ms between the last two onAirClick of one hand run (observer)
    \* ---- FaceTracker (src/unnamed/part_000:772-1425)
    faceLandmarker,   \* this.faceLandmarker non-null
    faceInitializing, \* module-level isInitializing
    facePollers,      \* callers of initialize() that poll for the end of a load
    faceInitialized,  \* module-level isInitialized
    speakingState,    \* this.speakingState
    smoothedExpression, \* this.smoothedExpression
    faceLastVideoTime,\* this.lastVideoTime
    faceEvents,       \* callbacks invoked by the last FaceTracker step, in order
    faceReturn,       \* what the last processVideoFrame call returned
    faceCall,         \* video.currentTime of the call made in the last step, if any (observer)
    faceFrame,        \* kind of the last processed face frame (observer)
    faceInput,        \* landmarks of the last processed face frame (observer)
    faceOutcome,      \* the path the last processVideoFrame call took (observer)
    openRun,          \* consecutive face frames with smoothed openness above the threshold (observer)
    closedRun,        \* consecutive face frames with smoothed openness not above it (observer)
    \* ---- GestureMapper (src/unnamed/part_001:439-798)
    mapperInstance,   \* GestureMapper.instance non-null
    config,           \* this.config
    lastGesture,      \* this.lastGesture
    lastHandPosition, \* this.lastHandPosition
    gestureCooldown,  \* this.gestureCooldown: action -> end of its cooldown
    isListening,      \* this.isListening
    controllerReady,  \* getLive2DController().isReady()
    mapperTimers,     \* pending setTimeout callbacks of the swipe handlers: due times
    controllerCalls,  \* controller methods invoked by the last GestureMapper step, in order
    lastSwipeAt,      \* time of the last swipe reaction (observer)
    lastTapAt,        \* time of the last click-driven tap (observer)
    zoomSurprised,    \* 'surprised' reactions of the current run of onPinchZoom calls
                      \* with scale > 1.2, counted up to 2 (observer)
    mapperOp,         \* the last step of the GestureMapper and its input, where recorded
    \* ---- LipSyncController (src/src/modules/live2d/LipSyncController.ts)
    lsInstance,       \* LipSyncController.instance non-null
    lsConfig,         \* this.config
    lsIsSpeaking,     \* this.isSpeaking
    currentOpenness,  \* this.currentOpenness
    lsSmoothedOpenness, \* this.smoothedOpenness
    attentiveStartTime, \* this.attentiveStartTime
    \* ---- ExpressionMapper (src/src/modules/live2d/ExpressionMapper.ts:428-877)
    emConfig,         \* this.config
    isTrackingActive, \* this.isTrackingActive
    \* ---- Live2DController (src/unnamed/part_002)
    targetMouthOpenness, \* this.targetMouthOpenness
    avatarCalls,      \* controller methods invoked by the last avatar step, in order
    avatarOp,         \* the operation of the last avatar step and its input (observer)
    emLastFace,       \* faceDetected of the last updateFromFaceData call (observer)
    emWrites,         \* parameter writes of the last ExpressionMapper step on the avatar
                      \* model, in order: the name and the way it was set
    emError,          \* an exception left the last ExpressionMapper step
    parameterCache,   \* the keys of this.parameterCache
    emModel,          \* controller.getModel()?.internalModel as the last
                      \* updateFromFaceData call found it (observer)
    speakingEnded,    \* an onSpeakingEnd took effect and no onSpeakingStart since (observer)
    \* ---- InteractionController (src/src/modules/threejs/interactionController.ts)
    iaInstance,       \* module-level controllerInstance non-null
    particleSystem,   \* this.particleSystem non-null
    camera,           \* this.camera non-null
    currentGesture,   \* this.currentGesture
    iaIsSpeaking,     \* this.isSpeaking
    pointerPosition,  \* this.pointerPosition, thousandths
    lastPointerPosition, \* this.lastPointerPosition
    currentScale,     \* this.currentScale, thousandths
    targetScale,      \* this.targetScale, thousandths
    iaState,          \* this.state
    iaOp              \* the operation of the last InteractionController step, its input,
                      \* the calls it made on the particle system and whether it ran
                      \* selectRegionAtPointer (observer)
VARIABLES
    \* ---- useJarvisStore (src/docs/Live2D-Integration.md)
    storeCurrentGesture, \* currentGesture of the store
    storeCallback,    \* callbacks.onGestureChange is a function
    isMenuOpen,       \* isMenuOpen of the store
    storeForwarded,   \* gestures passed to callbacks.onGestureChange by the last step
    lastForwarded,    \* the last gesture passed to the callback, "none" before the
                      \* first (observer)
    storeBypassed     \* currentGesture was written once without a call of the
                      \* callback (observer)

handVars == <<handPollers, handLandmarker, handInitializing, handInitialized, gestureState,
              handLastVideoTime, handTimers, handEvents, handReturn, handCall, handFrame,
              handLabels, handInput,
              handOutcome, sinceClick, clickGap>>

faceVars == <<facePollers, faceLandmarker, faceInitializing, faceInitialized, speakingState,
              smoothedExpression, faceLastVideoTime, faceEvents, faceReturn, faceCall,
              faceFrame, faceInput, faceOutcome, openRun, closedRun>>

mapperVars == <<mapperInstance, config, lastGesture, lastHandPosition, gestureCooldown,
                isListening, controllerReady, mapperTimers, controllerCalls,
                lastSwipeAt, lastTapAt, zoomSurprised, mapperOp>>

avatarVars == <<lsInstance, lsConfig, lsIsSpeaking, currentOpenness, lsSmoothedOpenness,
                attentiveStartTime, emConfig, isTrackingActive, targetMouthOpenness,
                avatarCalls, avatarOp, emLastFace, speakingEnded, emWrites, emError,
                parameterCache, emModel>>

iaVars == <<iaInstance, particleSystem, camera, currentGesture, iaIsSpeaking,
            pointerPosition, lastPointerPosition, currentScale, targetScale, iaState,
            iaOp>>

storeVars == <<storeCurrentGesture, storeCallback, isMenuOpen, storeForwarded,
               lastForwarded, storeBypassed>>

vars == <<now, handVars, faceVars, mapperVars, avatarVars, iaVars, storeVars>>

NULL == "null"

\* a position {x, y} is the pair <<x, y>>; a null position is the empty tuple
NoPosition == <<>>

\* no time recorded
NoTime == 0 - 1

\* ------------------------------------------------------------------ bounds
TickMs == 100        \* granularity of time
MapperTickMs == 500  \* granularity of Date.now() for the GestureMapper
MaxNow == 500        \* Date.now() stops here
MaxPending == 1      \* most swipe timeouts pending at a time
MaxSwipePending == 2 \* the same where swipes follow each other closely
MaxRun == 8          \* the consecutive-frame counters stop here
MaxFrameTs == 6      \* last video time of the frames with extreme geometry
MaxPollers == 1    \* most callers of initialize() polling at a time, per tracker
MaxPointer == 1     \* the pointer is dragged this far at most, thousandths
MaxTs == 1           \* video.currentTime takes the values 0..MaxTs
InnerWidth == 1280   \* window.innerWidth
InnerHeight == 720   \* window.innerHeight

\* --------------------------------------------------------------- constants
PINCH_THRESHOLD == 50
DRAG_THRESHOLD == 20
CLICK_Z_THRESHOLD == 30
SWIPE_THRESHOLD == 150
CLICK_COOLDOWN_MS == 300

\* ----------------------------------------------------------------- helpers
\* a faulty variant: every fetch constructs
ReuseInstance_Never(exists) == FALSE

\* if (!handTrackerInstance) { handTrackerInstance = new HandTracker() }: the accessors
\* construct only when no instance exists
ReuseInstance(exists) == exists

Abs(n) == IF n < 0 THEN -n ELSE n

RECURSIVE SqrtSearch(_, _, _)
SqrtSearch(n, lo, hi) ==
    IF lo >= hi THEN lo
    ELSE LET mid == (lo + hi + 1) \div 2
         IN  IF mid * mid <= n THEN SqrtSearch(n, mid, hi)
             ELSE SqrtSearch(n, lo, mid - 1)

Pt(x, y, z) == [x |-> x, y |-> y, z |-> z]

SquaredDistance(p1, p2) ==
    (p1.x - p2.x) * (p1.x - p2.x) + (p1.y - p2.y) * (p1.y - p2.y)
    + (p1.z - p2.z) * (p1.z - p2.z)

Ev(cb, g, a, b) == [cb |-> cb, g |-> g, a |-> a, b |-> b]

Filter(seq, cb) == SelectSeq(seq, LAMBDA e : e.cb = cb)

Count(seq, cb, g) == Len(SelectSeq(seq, LAMBDA e : e.cb = cb /\ e.g = g))

\* ------------------------------------------------------------ hand inputs
PalmXs == {400, 600}
Gaps == {30, 40, 100}
Depths == {0, -40}
Labels == {"Left", "Right", "Unknown"}
Shapes == {"fist", "point", "open"}

\* The seven landmarks detectGestures reads, for a hand whose palm is at x = px,
\* whose thumb tip is `gap` away from the index tip, whose index tip is at depth z.
MkHand(px, gap, z, shape) ==
    LET iy == IF shape = "point" THEN 400 ELSE 580
        oy == IF shape = "point" THEN 600 ELSE 580
        sp == IF shape = "open" THEN 200 ELSE 20
    IN  [ wrist     |-> Pt(px, 800, 0),
          indexMcp  |-> Pt(px, 600, 0),
          thumbTip  |-> Pt(px - gap, iy, z),
          indexTip  |-> Pt(px, iy, z),
          middleTip |-> Pt(px + sp, oy, z),
          ringTip   |-> Pt(px + 2 * sp, oy, z),
          pinkyTip  |-> Pt(px + 3 * sp, oy, z) ]

Poses ==
    { MkHand(px, gap, 0, s) : px \in PalmXs, gap \in Gaps, s \in Shapes }
    \cup { MkHand(px, gap, z, "fist") : px \in PalmXs, gap \in Gaps, z \in Depths }

\* HandLandmarkerResult: the hands of one frame, each with its raw label
HandResults ==
    {<<>>}
    \cup { <<[label |-> "Left", lm |-> p]>> : p \in Poses }
    \cup { <<[label |-> l, lm |-> MkHand(400, 100, 0, "fist")]>> : l \in Labels }
    \cup { <<[label |-> "Left", lm |-> MkHand(400, 100, 0, "fist")],
              [label |-> l, lm |-> MkHand(600, 100, 0, "fist")]>> : l \in Labels }

\* the square roots of the squared distances these hands produce, computed once
SqrtMemo ==
    [ n \in UNION { { SquaredDistance(p.thumbTip, p.indexTip),
                      SquaredDistance(p.indexTip, p.middleTip),
                      SquaredDistance(p.middleTip, p.ringTip),
                      SquaredDistance(p.ringTip, p.pinkyTip) } : p \in Poses }
      |-> SqrtSearch(n, 0, 2000) ]

\* Math.sqrt, floored
Sqrt(n) == IF n \in DOMAIN SqrtMemo THEN SqrtMemo[n] ELSE SqrtSearch(n, 0, 2000)

\* --------------------------------------------------------- HandTracker code
DefaultGestureState ==
    [ isPinching |-> FALSE,
      isDragging |-> FALSE,
      lastPinchDistance |-> 0,
      lastPosition |-> NoPosition,
      pinchStartPosition |-> NoPosition,
      clickCooldown |-> FALSE,
      lastZDepth |-> 0,
      gestureHistory |-> <<>> ]

calculateDistance(p1, p2) == Sqrt(SquaredDistance(p1, p2))

calculateFingerSpread(lm) ==
    ( calculateDistance(lm.thumbTip, lm.indexTip)
    + calculateDistance(lm.indexTip, lm.middleTip)
    + calculateDistance(lm.middleTip, lm.ringTip)
    + calculateDistance(lm.ringTip, lm.pinkyTip) ) \div 4

detectPointGesture(lm) ==
    LET indexExtended == lm.indexTip.y < lm.indexMcp.y - 50
        othersCurled == /\ lm.middleTip.y > lm.indexTip.y + 50
                        /\ lm.ringTip.y > lm.indexTip.y + 50
                        /\ lm.pinkyTip.y > lm.indexTip.y + 50
    IN  indexExtended /\ othersCurled

\* a faulty variant: every sustained-pinch frame zooms
ZoomExceeds_Always(last, cur) == TRUE

\* scale = lastPinchDistance / pinchDistance; Math.abs(scale - 1) > 0.05, decided on
\* the two distances (a zero divisor gives Infinity, or NaN for 0/0, which no
\* comparison accepts)
ZoomExceeds(last, cur) ==
    IF cur = 0 THEN last # 0 ELSE 20 * Abs(last - cur) > cur

\* a faulty variant: only the rightward displacement is recognized
SwipeOf_RightOnly(dx) ==
    IF dx > SWIPE_THRESHOLD THEN "swipe_right" ELSE "none"

\* if (dx > SWIPE_THRESHOLD) swipe_right else if (dx < -SWIPE_THRESHOLD) swipe_left
SwipeOf(dx) ==
    IF dx > SWIPE_THRESHOLD THEN "swipe_right"
    ELSE IF dx < -SWIPE_THRESHOLD THEN "swipe_left"
    ELSE "none"

\* a faulty variant: a pinch is never taken as ended
PinchEnded_Never(gs, isPinching) == FALSE

\* else { if (this.gestureState.isPinching) { ... "Pinch ended"
PinchEnded(gs, isPinching) == ~isPinching /\ gs.isPinching

\* a faulty variant: the spread is tested on pinching frames too
OpenPalmDetected_AnyFrame(isPinching, fingerSpread) == fingerSpread > 150

\* if (!isPinching) { ... if (fingerSpread > 0.15)
OpenPalmDetected(isPinching, fingerSpread) == ~isPinching /\ fingerSpread > 150

\* a faulty variant: the pinch branch without the test of the stored flag
PinchStarted_EveryFrame(gs, isPinching) == isPinching

\* if (isPinching) { if (!this.gestureState.isPinching) { ... "Pinch started"
PinchStarted(gs, isPinching) == isPinching /\ ~gs.isPinching

\* detectGestures(landmarks): the new gestureState, the callbacks in order, and
\* the timeouts it armed
\* a faulty variant: the raw displacement is passed on
DragDelta_Raw(d) == d

\* the argument scaling of onAirDrag: dx * 100, dy * 100
DragDelta(d) == d * 100

detectGestures(gs, lm) ==
    LET pinchDistance == calculateDistance(lm.thumbTip, lm.indexTip)
        isPinching == pinchDistance < PINCH_THRESHOLD
        palmCenter == <<(lm.wrist.x + lm.indexMcp.x) \div 2,
                        (lm.wrist.y + lm.indexMcp.y) \div 2>>
        hasLast == gs.lastPosition # NoPosition
        dx == IF hasLast THEN palmCenter[1] - gs.lastPosition[1] ELSE 0
        dy == IF hasLast THEN palmCenter[2] - gs.lastPosition[2] ELSE 0
        started == PinchStarted(gs, isPinching)
        ongoing == isPinching /\ gs.isPinching
        ended == PinchEnded(gs, isPinching)
        dragHit == ongoing /\ hasLast
                   /\ (Abs(dx) > DRAG_THRESHOLD \/ Abs(dy) > DRAG_THRESHOLD)
        zoomHit == ongoing /\ ZoomExceeds(gs.lastPinchDistance, pinchDistance)
        clickEval == ~isPinching /\ ~gs.clickCooldown
        zDelta == gs.lastZDepth - lm.indexTip.z
        clickHit == clickEval /\ zDelta > CLICK_Z_THRESHOLD
        swipeEval == ~isPinching /\ hasLast
        fingerSpread == calculateFingerSpread(lm)
        evPinch == IF started THEN <<Ev("onGestureChange", "pinch", 0, 0)>> ELSE <<>>
        evDrag == IF dragHit
                  THEN <<Ev("onAirDrag", "", DragDelta(dx), DragDelta(dy)),
                         Ev("onGestureChange", "drag", 0, 0)>>
                  ELSE <<>>
        evZoom == IF zoomHit
                  THEN <<Ev("onPinchZoom", "", gs.lastPinchDistance, pinchDistance)>>
                  ELSE <<>>
        evClick == IF clickHit
                   THEN <<Ev("onAirClick", "", lm.indexTip.x * InnerWidth,
                             lm.indexTip.y * InnerHeight),
                          Ev("onGestureChange", "click", 0, 0)>>
                   ELSE <<>>
        evSwipe == IF swipeEval /\ SwipeOf(dx) # "none"
                   THEN <<Ev("onGestureChange", SwipeOf(dx), 0, 0)>>
                   ELSE <<>>
        evPalm == IF OpenPalmDetected(isPinching, fingerSpread)
                  THEN <<Ev("onGestureChange", "open_palm", 0, 0)>> ELSE <<>>
        evPoint == IF detectPointGesture(lm) /\ ~isPinching
                   THEN <<Ev("onGestureChange", "point", 0, 0)>> ELSE <<>>
    IN  [ gs |-> [ isPinching |-> IF isPinching THEN TRUE
                                  ELSE IF ended THEN FALSE ELSE gs.isPinching,
                   isDragging |-> IF dragHit THEN TRUE
                                  ELSE IF ended THEN FALSE ELSE gs.isDragging,
                   lastPinchDistance |-> IF isPinching THEN pinchDistance
                                         ELSE gs.lastPinchDistance,
                   lastPosition |-> palmCenter,
                   pinchStartPosition |-> IF started THEN palmCenter
                                          ELSE IF ended THEN NoPosition
                                          ELSE gs.pinchStartPosition,
                   clickCooldown |-> IF clickHit THEN TRUE ELSE gs.clickCooldown,
                   lastZDepth |-> IF clickEval THEN lm.indexTip.z ELSE gs.lastZDepth,
                   gestureHistory |-> gs.gestureHistory ],
          ev |-> evPinch \o evDrag \o evZoom \o evClick \o evSwipe \o evPalm \o evPoint,
          timers |-> IF clickHit THEN {CLICK_COOLDOWN_MS} ELSE {} ]

\* a faulty variant: the palm position survives the reset
resetGestureState_KeepPosition(gs) ==
    [DefaultGestureState EXCEPT !.lastPosition = gs.lastPosition]

\* resetGestureState()
resetGestureState(gs) == DefaultGestureState

\* categoryName?.toLowerCase() on the category names of the feed
toLowerCase(name) ==
    CASE name = "Left" -> "left"
      [] name = "Right" -> "right"
      [] name = "Unknown" -> "unknown"
      [] OTHER -> name

\* a faulty variant: the flags follow the raw labels
HandDetectedEvent_Unmirrored(res) ==
    LET isLeftHand == \E i \in 1..Len(res) : toLowerCase(res[i].label) = "left"
        isRightHand == \E i \in 1..Len(res) : toLowerCase(res[i].label) = "right"
    IN  Ev("onHandDetected", "", IF isLeftHand THEN 1 ELSE 0, IF isRightHand THEN 1 ELSE 0)

\* the mirrored handedness flags of processResults
HandDetectedEvent(res) ==
    LET isRightHand == \E i \in 1..Len(res) : toLowerCase(res[i].label) = "left"
        isLeftHand == \E i \in 1..Len(res) : toLowerCase(res[i].label) = "right"
    IN  Ev("onHandDetected", "", IF isLeftHand THEN 1 ELSE 0, IF isRightHand THEN 1 ELSE 0)

\* a hand whose landmark array is empty: landmarks[THUMB_TIP] is undefined
EmptyLandmarks == <<>>

\* processResults(results); detectGestures reads .x of an undefined landmark when the
\* array of the primary hand is empty, and the TypeError ends the call
processResults(gs, res) ==
    LET hasHands == Len(res) > 0
        first == <<HandDetectedEvent(res)>>
                 \o (IF hasHands THEN <<Ev("onLandmarksUpdate", "", Len(res), 0)>> ELSE <<>>)
    IN  IF ~hasHands
        THEN [ gs |-> resetGestureState(gs),
               ev |-> first \o <<Ev("onGestureChange", "idle", 0, 0)>>,
               timers |-> {}, thrown |-> FALSE ]
        ELSE IF res[1].lm = EmptyLandmarks
        THEN [ gs |-> gs, ev |-> first, timers |-> {}, thrown |-> TRUE ]
        ELSE LET d == detectGestures(gs, res[1].lm)
             IN  [ gs |-> d.gs, ev |-> first \o d.ev, timers |-> d.timers,
                   thrown |-> FALSE ]

\* a faulty variant: no duplicate-frame guard
HandSameFrame_Never(ts) == FALSE

\* the duplicate-frame guard of processVideoFrame
HandSameFrame(ts) == ts = handLastVideoTime

FrameKind(res) ==
    IF Len(res) = 0 THEN "nohand"
    ELSE IF res[1].lm = EmptyLandmarks THEN "malformed"
    ELSE IF calculateDistance(res[1].lm.thumbTip, res[1].lm.indexTip) < PINCH_THRESHOLD
    THEN "pinch" ELSE "open"

\* what a frame shows of a hand: the depth of the index tip, the thumb-index distance
\* and the x of the palm centre
Measured(lm) ==
    [ z |-> lm.indexTip.z,
      pinchDistance |-> calculateDistance(lm.thumbTip, lm.indexTip),
      palmX |-> (lm.wrist.x + lm.indexMcp.x) \div 2 ]

\* -------------------------------------------------------- HandTracker steps
\* a faulty variant: initialize() loads again on every call
AlreadyInitialized_Never(initialized) == FALSE

\* if (isInitialized) return true
AlreadyInitialized(initialized) == initialized

\* a faulty variant: a call never finds a load in progress
LoadRunning_Never(initializing) == FALSE

\* if (isInitializing) { ... return new Promise(...) }
LoadRunning(initializing) == initializing

\* a faulty variant: frames reach the landmarker whatever the state
NotReady_Never(landmarker, initialized) == FALSE

\* if (!this.handLandmarker || !isInitialized) return null
NotReady(landmarker, initialized) == ~landmarker \/ ~initialized

\* initialize() up to its first await: an initialized module answers true at once, a
\* caller that finds isInitializing set starts to poll, any other caller starts the load
HandInitializeCall ==
    /\ handInitializing' = (handInitializing \/ ~AlreadyInitialized(handInitialized))
    /\ handPollers' = IF ~AlreadyInitialized(handInitialized) /\ LoadRunning(handInitializing)
                         /\ handPollers < MaxPollers
                      THEN handPollers + 1 ELSE handPollers
    /\ handCall' = NoTime
    /\ handOutcome' = IF AlreadyInitialized(handInitialized) THEN "init true"
                      ELSE IF LoadRunning(handInitializing) THEN "init waiting"
                      ELSE "init started"
    /\ handEvents' = <<>>
    /\ UNCHANGED <<storeVars, now, faceVars, mapperVars, avatarVars, iaVars, handLandmarker, handInitialized, gestureState, handLastVideoTime,
                   handTimers, handReturn, handFrame, handLabels, handInput, sinceClick, clickGap>>

HandInitializeDone(ok) ==
    /\ handInitializing
    /\ handInitializing' = FALSE
    /\ handPollers' = IF ok THEN 0 ELSE handPollers
    /\ handInitialized' = (handInitialized \/ ok)
    /\ handLandmarker' = (handLandmarker \/ ok)
    /\ handCall' = NoTime
    /\ handOutcome' = IF ok THEN "init true" ELSE "init false"
    /\ handEvents' = <<>>
    /\ UNCHANGED <<storeVars, now, faceVars, mapperVars, avatarVars, iaVars, gestureState, handLastVideoTime, handTimers, handReturn,
                   handFrame, handLabels, handInput, sinceClick, clickGap>>

\* the promise of a caller that found isInitializing set resolves false at its 10 s
\* timeout; its 100 ms poll resolves it true once isInitialized holds, which the model
\* takes as part of the step that ends the load
HandInitializePollTimeout ==
    /\ handPollers > 0
    /\ ~handInitialized
    /\ handPollers' = handPollers - 1
    /\ handCall' = NoTime
    /\ handOutcome' = "init false"
    /\ handEvents' = <<>>
    /\ UNCHANGED <<storeVars, now, faceVars, mapperVars, avatarVars, iaVars, handLandmarker, handInitializing, handInitialized,
                   gestureState, handLastVideoTime, handTimers, handReturn, handFrame,
                   handLabels, handInput, sinceClick, clickGap>>

\* getHandTracker(): the module keeps its instance, also over disposeHandTracker, so a
\* fetch finds it; a constructor would start from a null landmarker and the default
\* gesture state
getHandTracker ==
    /\ IF ReuseInstance(TRUE)
       THEN UNCHANGED <<handLandmarker, gestureState, handLastVideoTime>>
       ELSE /\ handLandmarker' = FALSE
            /\ gestureState' = DefaultGestureState
            /\ handLastVideoTime' = -1
    /\ handCall' = NoTime
    /\ handOutcome' = "fetched"
    /\ handEvents' = <<>>
    /\ UNCHANGED <<storeVars, now, faceVars, mapperVars, avatarVars, iaVars, handInitializing, handInitialized, handPollers,
                   handTimers, handReturn, handFrame, handLabels, handInput, sinceClick,
                   clickGap>>

HandDispose ==
    /\ handLandmarker' = FALSE
    /\ handCall' = NoTime
    /\ handOutcome' = "none"
    /\ handEvents' = <<>>
    /\ UNCHANGED <<storeVars, now, faceVars, mapperVars, avatarVars, iaVars, handInitializing, handInitialized, handPollers, gestureState,
                   handLastVideoTime, handTimers, handReturn, handFrame, handLabels, handInput, sinceClick, clickGap>>

HandProcessVideoFrame(ts, Results) ==
    /\ handCall' = ts
    /\ IF NotReady(handLandmarker, handInitialized) \/ HandSameFrame(ts)
       THEN /\ handReturn' = NULL
            /\ handEvents' = <<>>
            /\ handOutcome' = IF NotReady(handLandmarker, handInitialized)
                              THEN "not ready" ELSE "same frame"
            /\ UNCHANGED <<storeVars, now, faceVars, mapperVars, avatarVars, iaVars, handLandmarker, handInitializing,
                           handInitialized, handPollers, gestureState, handLastVideoTime, handTimers,
                           handFrame, handLabels, handInput, sinceClick, clickGap>>
       ELSE \/ \E res \in Results :
               \E r \in {processResults(gestureState, res)} :
                 LET clicked == Len(Filter(r.ev, "onAirClick")) > 0
                 IN  /\ handLastVideoTime' = ts
                     /\ gestureState' = r.gs
                     /\ handEvents' = r.ev
                     /\ handTimers' = handTimers \cup r.timers
                     /\ handReturn' = IF r.thrown THEN NULL ELSE "results"
                     /\ handOutcome' = IF r.thrown THEN "error" ELSE "processed"
                     /\ handFrame' = FrameKind(res)
                     /\ handLabels' = { res[i].label : i \in 1..Len(res) }
                     /\ handInput' = IF Len(res) = 0 \/ r.thrown THEN NoPosition
                                     ELSE Measured(res[1].lm)
                     /\ sinceClick' = IF Len(res) = 0 THEN NoTime
                                      ELSE IF clicked THEN 0 ELSE sinceClick
                     /\ clickGap' = IF Len(res) = 0 THEN NoTime
                                    ELSE IF clicked /\ sinceClick # NoTime THEN sinceClick
                                    ELSE clickGap
                     /\ UNCHANGED <<storeVars, now, faceVars, mapperVars, avatarVars, iaVars, handLandmarker, handInitializing,
                                    handInitialized, handPollers>>
            \* detectForVideo throws: the catch returns null
            \/ /\ handLastVideoTime' = ts
               /\ handReturn' = NULL
               /\ handOutcome' = "error"
               /\ handEvents' = <<>>
               /\ UNCHANGED <<storeVars, now, faceVars, mapperVars, avatarVars, iaVars, handLandmarker, handInitializing,
                              handInitialized, handPollers, gestureState, handTimers, handFrame, handLabels, handInput,
                              sinceClick, clickGap>>

\* the setTimeout callback armed by a click: this.gestureState.clickCooldown = false
HandCooldownTimer ==
    /\ 0 \in handTimers
    /\ handTimers' = handTimers \ {0}
    /\ gestureState' = [gestureState EXCEPT !.clickCooldown = FALSE]
    /\ handCall' = NoTime
    /\ handOutcome' = "none"
    /\ handEvents' = <<>>
    /\ UNCHANGED <<storeVars, now, faceVars, mapperVars, avatarVars, iaVars, handLandmarker, handInitializing, handInitialized, handPollers,
                   handLastVideoTime, handReturn, handFrame, handLabels, handInput, sinceClick, clickGap>>

\* TickMs pass for the pending timeouts; a due timeout runs before more time passes
HandTick ==
    /\ 0 \notin handTimers
    /\ handTimers # {} \/ (sinceClick # NoTime /\ sinceClick < CLICK_COOLDOWN_MS)
    /\ handTimers' = { IF d > TickMs THEN d - TickMs ELSE 0 : d \in handTimers }
    /\ sinceClick' = IF sinceClick = NoTime THEN NoTime
                     ELSE IF sinceClick + TickMs > CLICK_COOLDOWN_MS THEN CLICK_COOLDOWN_MS
                     ELSE sinceClick + TickMs
    /\ handCall' = NoTime
    /\ handOutcome' = "none"
    /\ handEvents' = <<>>
    /\ UNCHANGED <<storeVars, now, faceVars, mapperVars, avatarVars, iaVars, handLandmarker, handInitializing, handInitialized, handPollers, gestureState,
                   handLastVideoTime, handReturn, handFrame, handLabels, handInput, clickGap>>

\* ------------------------------------------------------------ face inputs
MouthGaps == {0, 6}

\* The landmarks the tracker reads (478 in the feed), for a frontal face whose lips
\* are `gap` apart; x and y only, z is never read
MkFace(gap) ==
    [ upperLip      |-> [x |-> 500, y |-> 600],
      lowerLip      |-> [x |-> 500, y |-> 600 + gap],
      leftCorner    |-> [x |-> 450, y |-> 598],
      rightCorner   |-> [x |-> 550, y |-> 598],
      leftEyeUpper  |-> [x |-> 440, y |-> 394],
      leftEyeLower  |-> [x |-> 440, y |-> 406],
      leftEyeOuter  |-> [x |-> 420, y |-> 400],
      leftEyeInner  |-> [x |-> 460, y |-> 400],
      rightEyeUpper |-> [x |-> 560, y |-> 394],
      rightEyeLower |-> [x |-> 560, y |-> 406],
      rightEyeOuter |-> [x |-> 580, y |-> 396],
      rightEyeInner |-> [x |-> 540, y |-> 400],
      leftBrowCenter  |-> [x |-> 440, y |-> 345],
      rightBrowCenter |-> [x |-> 560, y |-> 360],
      nose          |-> [x |-> 510, y |-> 510],
      forehead      |-> [x |-> 500, y |-> 300],
      chin          |-> [x |-> 500, y |-> 700],
      leftCheek     |-> [x |-> 400, y |-> 500],
      rightCheek    |-> [x |-> 600, y |-> 500] ]

Faces == { MkFace(g) : g \in MouthGaps }

NoLandmarks == [none |-> TRUE]

\* Extreme geometries. Closed eyes, brows below the eyes, nose outside the face to the
\* upper left, eye line tilted past -30 degrees, wide closed mouth with dropped corners
FaceLow ==
    [ MkFace(0) EXCEPT !.leftEyeUpper.y = 400, !.leftEyeLower.y = 400,
                       !.rightEyeUpper.y = 400, !.rightEyeLower.y = 400,
                       !.leftBrowCenter.y = 500, !.rightBrowCenter.y = 500,
                       !.nose = [x |-> 0, y |-> 0],
                       !.leftEyeOuter.y = 100, !.rightEyeOuter.y = 900,
                       !.leftCorner = [x |-> 0, y |-> 900],
                       !.rightCorner = [x |-> 1000, y |-> 900] ]

\* Eyes taller than wide, brows far above, nose outside to the lower right, eye line
\* tilted past 30 degrees, narrow mouth wide open with lifted corners
FaceHigh ==
    [ MkFace(0) EXCEPT !.leftEyeUpper.y = 300, !.leftEyeLower.y = 500,
                       !.rightEyeUpper.y = 300, !.rightEyeLower.y = 500,
                       !.leftBrowCenter.y = 0, !.rightBrowCenter.y = 0,
                       !.nose = [x |-> 1000, y |-> 1000],
                       !.leftEyeOuter.y = 900, !.rightEyeOuter.y = 100,
                       !.lowerLip.y = 1000, !.upperLip.y = 0,
                       !.leftCorner = [x |-> 495, y |-> 0],
                       !.rightCorner = [x |-> 505, y |-> 0] ]

\* Every landmark on one point, except lips 0.2 apart: zero-width eyes and mouth
FaceDegenerate ==
    [ k \in DOMAIN MkFace(0) |->
        IF k = "lowerLip" THEN [x |-> 500, y |-> 700] ELSE [x |-> 500, y |-> 500] ]

ExtremeFaces == {FaceLow, FaceHigh, FaceDegenerate}

ExtremeFaceResults == {<<>>} \cup { <<f>> : f \in ExtremeFaces }

\* FaceLandmarkerResult.faceLandmarks: no face, or one face
FaceResults == {<<>>} \cup { <<f>> : f \in Faces }

\* --------------------------------------------------------- FaceTracker code
MOUTH_OPEN_THRESHOLD == 20
SPEAKING_FRAMES_THRESHOLD == 3
\* the smoothing factors, in tenths
SMOOTHING_FACTOR == 3
EXPRESSION_SMOOTHING == 4
\* the eye height/width ratios of a closed and a wide-open eye, in thousandths
EYE_OPEN_RATIO_MIN == 150
EYE_OPEN_RATIO_MAX == 350

\* a faulty variant: no lower limit
Clamp_UpperOnly(lo, hi, v) == IF v > hi THEN hi ELSE v

\* Math.max(lo, Math.min(hi, v))
Clamp(lo, hi, v) == IF v < lo THEN lo ELSE IF v > hi THEN hi ELSE v

\* Expression fields are in thousandths; angles in thousandths of a degree.
getDefaultExpression ==
    [ leftEyeOpenness |-> 1000, rightEyeOpenness |-> 1000,
      leftBrowY |-> 0, rightBrowY |-> 0,
      headAngleX |-> 0, headAngleY |-> 0, headAngleZ |-> 0,
      mouthOpenness |-> 0, mouthSmile |-> 0,
      faceX |-> 500, faceY |-> 500,
      faceDetected |-> FALSE ]

DefaultSpeakingState ==
    [ isSpeaking |-> FALSE,
      mouthOpenness |-> 0,
      speakingStartTime |-> NoTime,
      lastMouthOpenness |-> 0,
      smoothedOpenness |-> 0,
      consecutiveOpenFrames |-> 0,
      consecutiveClosedFrames |-> 0 ]

calculateEyeOpenness(upper, lower, outer, inner) ==
    LET eyeHeight == Abs(upper.y - lower.y)
        eyeWidth == Abs(outer.x - inner.x)
    IN  IF eyeWidth = 0 THEN 1000
        ELSE LET ratio == (eyeHeight * 1000) \div eyeWidth
                 normalized == ((ratio - EYE_OPEN_RATIO_MIN) * 1000)
                               \div (EYE_OPEN_RATIO_MAX - EYE_OPEN_RATIO_MIN)
             IN  Clamp(0, 1000, normalized)

calculateBrowPosition(lm) ==
    LET leftEyeCenterY == (lm.leftEyeUpper.y + lm.leftEyeLower.y) \div 2
        rightEyeCenterY == (lm.rightEyeUpper.y + lm.rightEyeLower.y) \div 2
        leftBrowDist == leftEyeCenterY - lm.leftBrowCenter.y
        rightBrowDist == rightEyeCenterY - lm.rightBrowCenter.y
        baseDist == 45
    IN  [ leftBrowY |-> Clamp(-1000, 1000, ((leftBrowDist - baseDist) * 1000) \div 20),
          rightBrowY |-> Clamp(-1000, 1000, ((rightBrowDist - baseDist) * 1000) \div 20) ]

\* Math.atan2(dy, dx) in thousandths of a degree, exact to about 0.2 degree inside
\* [-30, 30] degrees (the series r - r^3/3 + r^5/5) and with the right sign outside
Atan2Degrees(dy, dx) ==
    IF dx > 0 /\ 100000 * Abs(dy) <= 57735 * dx
    THEN LET r == (dy * 1000) \div dx
             r3 == (r * r * r) \div 1000000
             r5 == (r3 * r * r) \div 1000000
             rad == r - r3 \div 3 + r5 \div 5
         IN  (rad * 57296) \div 1000
    ELSE IF dy > 0 THEN 90000
    ELSE IF dy < 0 THEN -90000
    ELSE IF dx < 0 THEN 180000 ELSE 0

calculateHeadPose(lm) ==
    LET cheekCenterX == (lm.leftCheek.x + lm.rightCheek.x) \div 2
        headAngleX == (lm.nose.x - cheekCenterX) * 100
        faceCenterY == (lm.forehead.y + lm.chin.y) \div 2
        headAngleY == (lm.nose.y - faceCenterY) * 150
        eyeDeltaY == lm.leftEyeOuter.y - lm.rightEyeOuter.y
        eyeDeltaX == lm.rightEyeOuter.x - lm.leftEyeOuter.x
        headAngleZ == Atan2Degrees(eyeDeltaY, eyeDeltaX)
    IN  [ headAngleX |-> Clamp(-30000, 30000, headAngleX),
          headAngleY |-> Clamp(-30000, 30000, headAngleY),
          headAngleZ |-> Clamp(-30000, 30000, headAngleZ) ]

\* mouthWidth > 0 ? mouthHeight / mouthWidth : mouthHeight, in thousandths
NormalizedOpenness(lm) ==
    LET mouthHeight == Abs(lm.lowerLip.y - lm.upperLip.y)
        mouthWidth == Abs(lm.rightCorner.x - lm.leftCorner.x)
    IN  IF mouthWidth > 0 THEN (mouthHeight * 1000) \div mouthWidth ELSE mouthHeight

calculateMouthShape(lm) ==
    LET normalizedOpenness == NormalizedOpenness(lm)
        mouthOpenness == IF normalizedOpenness * 3 > 1000 THEN 1000
                         ELSE normalizedOpenness * 3
        lipCenterY == (lm.upperLip.y + lm.lowerLip.y) \div 2
        leftCornerRelative == lipCenterY - lm.leftCorner.y
        rightCornerRelative == lipCenterY - lm.rightCorner.y
        avgCornerLift == (leftCornerRelative + rightCornerRelative) \div 2
    IN  [ mouthOpenness |-> mouthOpenness,
          mouthSmile |-> Clamp(-1000, 1000, avgCornerLift * 30) ]

extractExpressionData(lm) ==
    LET brow == calculateBrowPosition(lm)
        pose == calculateHeadPose(lm)
        mouth == calculateMouthShape(lm)
    IN  [ leftEyeOpenness |-> calculateEyeOpenness(lm.leftEyeUpper, lm.leftEyeLower,
                                                  lm.leftEyeOuter, lm.leftEyeInner),
          rightEyeOpenness |-> calculateEyeOpenness(lm.rightEyeUpper, lm.rightEyeLower,
                                                   lm.rightEyeOuter, lm.rightEyeInner),
          leftBrowY |-> brow.leftBrowY, rightBrowY |-> brow.rightBrowY,
          headAngleX |-> pose.headAngleX, headAngleY |-> pose.headAngleY,
          headAngleZ |-> pose.headAngleZ,
          mouthOpenness |-> mouth.mouthOpenness, mouthSmile |-> mouth.mouthSmile,
          faceX |-> lm.nose.x, faceY |-> lm.nose.y,
          faceDetected |-> TRUE ]

lerp(a, b, t) == a + ((b - a) * t) \div 10

smoothExpression(prev, current) ==
    LET factor == EXPRESSION_SMOOTHING
    IN  [ leftEyeOpenness |-> lerp(prev.leftEyeOpenness, current.leftEyeOpenness, factor),
          rightEyeOpenness |-> lerp(prev.rightEyeOpenness, current.rightEyeOpenness, factor),
          leftBrowY |-> lerp(prev.leftBrowY, current.leftBrowY, factor),
          rightBrowY |-> lerp(prev.rightBrowY, current.rightBrowY, factor),
          headAngleX |-> lerp(prev.headAngleX, current.headAngleX, factor),
          headAngleY |-> lerp(prev.headAngleY, current.headAngleY, factor),
          headAngleZ |-> lerp(prev.headAngleZ, current.headAngleZ, factor),
          mouthOpenness |-> lerp(prev.mouthOpenness, current.mouthOpenness, factor),
          mouthSmile |-> lerp(prev.mouthSmile, current.mouthSmile, factor),
          faceX |-> lerp(prev.faceX, current.faceX, factor),
          faceY |-> lerp(prev.faceY, current.faceY, factor),
          faceDetected |-> current.faceDetected ]

\* a FaceTracker callback; `expr` is the vector of onExpressionUpdate
NoExpression == [faceDetected |-> FALSE]
FEv(cb, v, expr) == [cb |-> cb, v |-> v, expr |-> expr]

startSpeaking(ss, t) ==
    [ ss |-> [ss EXCEPT !.isSpeaking = TRUE, !.speakingStartTime = t],
      ev |-> <<FEv("onSpeakingStart", 0, NoExpression)>> ]

stopSpeaking(ss) ==
    [ ss |-> [ss EXCEPT !.isSpeaking = FALSE, !.speakingStartTime = NoTime],
      ev |-> <<FEv("onSpeakingEnd", 0, NoExpression)>> ]

\* smoothedOpenness * (1 - SMOOTHING_FACTOR) + normalizedOpenness * SMOOTHING_FACTOR
SmoothOpenness(smoothed, normalized) ==
    (smoothed * (10 - SMOOTHING_FACTOR) + normalized * SMOOTHING_FACTOR) \div 10

IsMouthOpen(smoothedOpenness) == smoothedOpenness > MOUTH_OPEN_THRESHOLD

\* a faulty variant: the open branch without the reset of the closed counter
CountOpenFrame_KeepsClosed(ss) == [ss EXCEPT !.consecutiveOpenFrames = @ + 1]

\* the counters of the open branch and of the closed branch of detectMouthOpenness
CountOpenFrame(ss) ==
    [ss EXCEPT !.consecutiveOpenFrames = @ + 1, !.consecutiveClosedFrames = 0]

\* a faulty variant: the closed branch without the reset of the open counter
CountClosedFrame_KeepsOpen(ss) == [ss EXCEPT !.consecutiveClosedFrames = @ + 1]

CountClosedFrame(ss) ==
    [ss EXCEPT !.consecutiveClosedFrames = @ + 1, !.consecutiveOpenFrames = 0]

\* a faulty variant: the start test without !isSpeaking
ShouldStartSpeaking_Again(ss) == ss.consecutiveOpenFrames >= SPEAKING_FRAMES_THRESHOLD

ShouldStartSpeaking(ss) ==
    ~ss.isSpeaking /\ ss.consecutiveOpenFrames >= SPEAKING_FRAMES_THRESHOLD

ShouldStopSpeaking(ss) ==
    ss.isSpeaking /\ ss.consecutiveClosedFrames >= SPEAKING_FRAMES_THRESHOLD * 2

\* detectMouthOpenness(landmarks) at time t: the new speakingState and the callbacks
detectMouthOpenness(ss, lm, t) ==
    LET smoothedOpenness == SmoothOpenness(ss.smoothedOpenness, NormalizedOpenness(lm))
        s1 == [ss EXCEPT !.smoothedOpenness = smoothedOpenness,
                         !.mouthOpenness = smoothedOpenness]
        first == <<FEv("onMouthOpennessChange", smoothedOpenness, NoExpression)>>
        s2 == IF IsMouthOpen(smoothedOpenness) THEN CountOpenFrame(s1)
              ELSE CountClosedFrame(s1)
        r == IF IsMouthOpen(smoothedOpenness)
             THEN (IF ShouldStartSpeaking(s2) THEN startSpeaking(s2, t)
                   ELSE [ss |-> s2, ev |-> <<>>])
             ELSE (IF ShouldStopSpeaking(s2) THEN stopSpeaking(s2)
                   ELSE [ss |-> s2, ev |-> <<>>])
    IN  [ ss |-> [r.ss EXCEPT !.lastMouthOpenness = smoothedOpenness],
          ev |-> first \o r.ev ]

resetSpeakingState(ss) == DefaultSpeakingState

\* a faulty variant: a face loss that resets the state without stopSpeaking()
handleNoFace_NoStop(ss) ==
    [ ss |-> resetSpeakingState(ss),
      expr |-> getDefaultExpression,
      ev |-> <<FEv("onExpressionUpdate", 0, getDefaultExpression)>> ]

\* handleNoFace(): the new speakingState and smoothedExpression, and the callbacks
handleNoFace(ss) ==
    LET stop == IF ss.isSpeaking THEN stopSpeaking(ss) ELSE [ss |-> ss, ev |-> <<>>]
        defaultExpr == getDefaultExpression
    IN  [ ss |-> resetSpeakingState(stop.ss),
          expr |-> defaultExpr,
          ev |-> stop.ev \o <<FEv("onExpressionUpdate", 0, defaultExpr)>> ]

\* processResults(results) of the FaceTracker at time t
faceProcessResults(ss, expr, res, t) ==
    LET hasFace == Len(res) > 0
        first == <<FEv("onFaceDetected", IF hasFace THEN 1 ELSE 0, NoExpression)>>
    IN  IF ~hasFace
        THEN LET n == handleNoFace(ss)
             IN  [ss |-> n.ss, expr |-> n.expr, ev |-> first \o n.ev]
        ELSE LET landmarks == res[1]
                 smoothed == smoothExpression(expr, extractExpressionData(landmarks))
                 m == detectMouthOpenness(ss, landmarks, t)
             IN  [ ss |-> m.ss,
                   expr |-> smoothed,
                   ev |-> first
                          \o <<FEv("onLandmarksUpdate", 0, NoExpression),
                               FEv("onExpressionUpdate", 0, smoothed)>>
                          \o m.ev ]

\* the duplicate-frame guard of FaceTracker.processVideoFrame
FaceSameFrame(ts) == ts = faceLastVideoTime

\* -------------------------------------------------------- FaceTracker steps
\* initialize() up to its first await, as in HandTracker
FaceInitializeCall ==
    /\ faceInitializing' = (faceInitializing \/ ~AlreadyInitialized(faceInitialized))
    /\ facePollers' = IF ~AlreadyInitialized(faceInitialized) /\ LoadRunning(faceInitializing)
                         /\ facePollers < MaxPollers
                      THEN facePollers + 1 ELSE facePollers
    /\ faceEvents' = <<>>
    /\ faceCall' = NoTime
    /\ faceOutcome' = IF AlreadyInitialized(faceInitialized) THEN "init true"
                      ELSE IF LoadRunning(faceInitializing) THEN "init waiting"
                      ELSE "init started"
    /\ UNCHANGED <<storeVars, now, handVars, mapperVars, avatarVars, iaVars, faceLandmarker, faceInitialized, speakingState,
                   smoothedExpression, faceLastVideoTime, faceReturn, faceFrame, faceInput,
                   openRun, closedRun>>

FaceInitializeDone(ok) ==
    /\ faceInitializing
    /\ faceInitializing' = FALSE
    /\ facePollers' = IF ok THEN 0 ELSE facePollers
    /\ faceInitialized' = (faceInitialized \/ ok)
    /\ faceLandmarker' = (faceLandmarker \/ ok)
    /\ faceEvents' = <<>>
    /\ faceCall' = NoTime
    /\ faceOutcome' = IF ok THEN "init true" ELSE "init false"
    /\ UNCHANGED <<storeVars, now, handVars, mapperVars, avatarVars, iaVars, speakingState, smoothedExpression, faceLastVideoTime,
                   faceReturn, faceFrame, faceInput, openRun, closedRun>>

\* the promise of a caller that found isInitializing set, as in HandTracker
FaceInitializePollTimeout ==
    /\ facePollers > 0
    /\ ~faceInitialized
    /\ facePollers' = facePollers - 1
    /\ faceEvents' = <<>>
    /\ faceCall' = NoTime
    /\ faceOutcome' = "init false"
    /\ UNCHANGED <<storeVars, now, handVars, mapperVars, avatarVars, iaVars, faceLandmarker, faceInitializing, faceInitialized,
                   speakingState, smoothedExpression, faceLastVideoTime, faceReturn, faceFrame,
                   faceInput, openRun, closedRun>>

\* getFaceTracker(), as getHandTracker
getFaceTracker ==
    /\ IF ReuseInstance(TRUE)
       THEN UNCHANGED <<faceLandmarker, speakingState, smoothedExpression, faceLastVideoTime>>
       ELSE /\ faceLandmarker' = FALSE
            /\ speakingState' = DefaultSpeakingState
            /\ smoothedExpression' = getDefaultExpression
            /\ faceLastVideoTime' = -1
    /\ faceEvents' = <<>>
    /\ faceCall' = NoTime
    /\ faceOutcome' = "fetched"
    /\ UNCHANGED <<storeVars, now, handVars, mapperVars, avatarVars, iaVars, faceInitializing, faceInitialized, facePollers,
                   faceReturn, faceFrame, faceInput, openRun, closedRun>>

FaceDispose ==
    /\ faceLandmarker' = FALSE
    /\ faceEvents' = <<>>
    /\ faceCall' = NoTime
    /\ faceOutcome' = "none"
    /\ UNCHANGED <<storeVars, now, handVars, mapperVars, avatarVars, iaVars, faceInitializing, faceInitialized, facePollers, speakingState,
                   smoothedExpression, faceLastVideoTime, faceReturn, faceFrame, faceInput,
                   openRun, closedRun>>

FaceProcessVideoFrame(ts, Results) ==
    /\ faceCall' = ts
    /\ IF NotReady(faceLandmarker, faceInitialized) \/ FaceSameFrame(ts)
       THEN /\ faceReturn' = NULL
            /\ faceEvents' = <<>>
            /\ faceOutcome' = IF NotReady(faceLandmarker, faceInitialized)
                              THEN "not ready" ELSE "same frame"
            /\ UNCHANGED <<storeVars, now, handVars, mapperVars, avatarVars, iaVars, faceLandmarker, faceInitializing,
                           faceInitialized, facePollers, speakingState, smoothedExpression,
                           faceLastVideoTime, faceFrame, faceInput, openRun, closedRun>>
       ELSE \/ \E res \in Results :
               \E r \in {faceProcessResults(speakingState, smoothedExpression, res, now)} :
                 LET open == Len(res) > 0 /\ IsMouthOpen(r.ss.smoothedOpenness)
                 IN  /\ speakingState.consecutiveOpenFrames < MaxRun
                     /\ speakingState.consecutiveClosedFrames < MaxRun
                     /\ faceLastVideoTime' = ts
                     /\ speakingState' = r.ss
                     /\ smoothedExpression' = r.expr
                     /\ faceEvents' = r.ev
                     /\ faceReturn' = "results"
                     /\ faceOutcome' = "processed"
                     /\ faceFrame' = IF Len(res) = 0 THEN "noface" ELSE "face"
                     /\ faceInput' = IF Len(res) = 0 THEN NoLandmarks ELSE res[1]
                     /\ openRun' = IF Len(res) = 0 THEN 0 ELSE IF open THEN openRun + 1 ELSE 0
                     /\ closedRun' = IF Len(res) = 0 THEN 0
                                     ELSE IF open THEN 0 ELSE closedRun + 1
                     /\ UNCHANGED <<storeVars, now, handVars, mapperVars, avatarVars, iaVars, faceLandmarker, faceInitializing,
                                    faceInitialized, facePollers>>
            \* detectForVideo throws: the catch returns null
            \/ /\ faceLastVideoTime' = ts
               /\ faceReturn' = NULL
               /\ faceOutcome' = "error"
               /\ faceEvents' = <<>>
               /\ UNCHANGED <<storeVars, now, handVars, mapperVars, avatarVars, iaVars, faceLandmarker, faceInitializing,
                              faceInitialized, facePollers, speakingState, smoothedExpression,
                              faceFrame, faceInput, openRun, closedRun>>

FaceInit ==
    /\ faceLandmarker = FALSE
    /\ faceInitializing = FALSE
    /\ faceInitialized = FALSE
    /\ facePollers = 0
    /\ speakingState = DefaultSpeakingState
    /\ smoothedExpression = getDefaultExpression
    /\ faceLastVideoTime = -1
    /\ faceEvents = <<>>
    /\ faceReturn = NULL
    /\ faceCall = NoTime
    /\ faceFrame = "none"
    /\ faceInput = NoLandmarks
    /\ faceOutcome = "none"
    /\ openRun = 0
    /\ closedRun = 0

HandInit ==
    /\ handLandmarker = FALSE
    /\ handInitializing = FALSE
    /\ handInitialized = FALSE
    /\ handPollers = 0
    /\ gestureState = DefaultGestureState
    /\ handLastVideoTime = -1
    /\ handTimers = {}
    /\ handEvents = <<>>
    /\ handReturn = NULL
    /\ handCall = NoTime
    /\ handFrame = "none"
    /\ handLabels = {}
    /\ handInput = NoPosition
    /\ handOutcome = "none"
    /\ sinceClick = NoTime
    /\ clickGap = NoTime

\* ================================================================ GestureMapper
\* GestureType
GestureTypes ==
    {"idle", "pinch", "drag", "click", "swipe_left", "swipe_right", "point", "open_palm"}

\* ---------------------------------------------------------- mapper inputs
\* HandPosition {x, y, z} as <<x, y, z>>, thousandths
HandPositions == { <<800, 300, 0>> }

\* screen coordinates of a click, pixels
ClickPoints == { <<640, 360>> }

\* drag deltas <<dx, dy>>, thousandths
DragDeltas == { <<20000, -100000>> }

\* pinch scales, thousandths
PinchScales == { 500, 1000, 1500 }

\* ------------------------------------------------------------ mapper code
DEFAULT_CONFIG ==
    [ enabled |-> TRUE, focusTrackingEnabled |-> TRUE, gestureReactionsEnabled |-> TRUE,
      bodyTiltSensitivity |-> 15 ]

\* a call of a Live2DController method
Call(op, s, a, b) == [op |-> op, s |-> s, a |-> a, b |-> b]

\* an operation of the avatar side and its numeric input
AvatarOp(op, arg) == [op |-> op, arg |-> arg]

NoCooldowns == [k \in {} |-> 0]

\* a step of the GestureMapper: the method, its gesture and its number, if any
MapperOp(op, g, n) == [op |-> op, g |-> g, n |-> n]

\* the steps are recorded only in the runs that start with the record switched on
NotRecorded == MapperOp("off", "", 0)

Recorded(op, g, n) ==
    mapperOp' = IF mapperOp = NotRecorded THEN NotRecorded ELSE MapperOp(op, g, n)

\* this.gestureCooldown.set(action, Date.now() + duration)
setCooldown(cd, action, duration, t) ==
    [k \in DOMAIN cd \cup {action} |-> IF k = action THEN t + duration ELSE cd[k]]

\* get(gesture) is undefined, hence not on cooldown, for a key never set
isOnCooldown(cd, gesture, t) ==
    IF gesture \notin DOMAIN cd \/ cd[gesture] = 0 THEN FALSE ELSE t < cd[gesture]

\* focus coordinates (-1 .. 1) of a normalized position
FocusX(pos) == (pos[1] - 500) * 2
FocusY(pos) == (500 - pos[2]) * 2

\* what a gesture handler does: controller calls, the cooldown map, timeouts armed
Reaction(calls, cd, timers) == [calls |-> calls, cd |-> cd, timers |-> timers]

handleClick(cd, pos, t) == Reaction(<<Call("tap", "", 0, 0)>>, cd, <<>>)

handlePinch(cd, pos, t) == Reaction(<<Call("setExpression", "surprised", 0, 0)>>, cd, <<>>)

handleDrag(cd, pos, t) == Reaction(<<>>, cd, <<>>)

handleSwipeLeft(cd, pos, t) ==
    Reaction(<<Call("setTargetFocus", "", -1000, 0), Call("setBodyAngle", "", -20000, 0)>>,
             setCooldown(cd, "swipe", 800, t), <<t + 500>>)

handleSwipeRight(cd, pos, t) ==
    Reaction(<<Call("setTargetFocus", "", 1000, 0), Call("setBodyAngle", "", 20000, 0)>>,
             setCooldown(cd, "swipe", 800, t), <<t + 500>>)

handlePoint(cd, pos, t) ==
    Reaction(IF pos # NoPosition
             THEN <<Call("setTargetFocus", "", FocusX(pos), FocusY(pos))>> ELSE <<>>,
             cd, <<>>)

handleOpenPalm(cd, pos, t) ==
    Reaction(<<Call("flick", "", 0, 0)>>, setCooldown(cd, "palm", 1000, t), <<>>)

handleIdle(cd, pos, t) ==
    Reaction(<<Call("setTargetFocus", "", 0, 0), Call("setBodyAngle", "", 0, 0),
               Call("setExpression", "default", 0, 0)>>, cd, <<>>)

\* the switch of onGestureChange
MapGesture(gesture, cd, pos, t) ==
    CASE gesture = "click" -> handleClick(cd, pos, t)
      [] gesture = "pinch" -> handlePinch(cd, pos, t)
      [] gesture = "drag" -> handleDrag(cd, pos, t)
      [] gesture = "swipe_left" -> handleSwipeLeft(cd, pos, t)
      [] gesture = "swipe_right" -> handleSwipeRight(cd, pos, t)
      [] gesture = "point" -> handlePoint(cd, pos, t)
      [] gesture = "open_palm" -> handleOpenPalm(cd, pos, t)
      [] gesture = "idle" -> handleIdle(cd, pos, t)

\* the early returns of onGestureChange, before the cooldown check
GestureAccepted(gesture) ==
    /\ config.enabled /\ config.gestureReactionsEnabled
    /\ isListening
    /\ gesture # lastGesture
    /\ controllerReady

\* a faulty variant: a paused mapper still takes clicks
AirClickAccepted_WhilePaused ==
    /\ config.enabled /\ config.gestureReactionsEnabled
    /\ controllerReady

\* the early returns of onAirClick
AirClickAccepted ==
    /\ config.enabled /\ config.gestureReactionsEnabled
    /\ isListening
    /\ controllerReady

\* the swipe and click bookkeeping of a dispatched reaction (observers)
SwipeObserved(swiped) ==
    lastSwipeAt' = IF swiped THEN now ELSE lastSwipeAt

TapObserved(tapped) ==
    lastTapAt' = IF tapped THEN now ELSE lastTapAt

onHandDetected(isLeft, isRight) ==
    /\ mapperInstance
    /\ IF config.enabled /\ isListening /\ controllerReady /\ ~isLeft /\ ~isRight
       THEN /\ controllerCalls' = <<Call("setTargetFocus", "", 0, 0)>>
            /\ lastHandPosition' = NoPosition
       ELSE /\ controllerCalls' = <<>>
            /\ UNCHANGED lastHandPosition
    /\ Recorded("onHandDetected", "", 0)
    /\ UNCHANGED <<storeVars, now, handVars, faceVars, avatarVars, iaVars, mapperInstance, config, lastGesture,
                   gestureCooldown, isListening, controllerReady, mapperTimers,
                   lastSwipeAt, lastTapAt, zoomSurprised>>

onHandPositionUpdate(position) ==
    /\ mapperInstance
    /\ IF config.enabled /\ config.focusTrackingEnabled /\ isListening /\ controllerReady
       THEN /\ controllerCalls' =
                 <<Call("setTargetFocus", "", FocusX(position), FocusY(position)),
                   Call("setBodyAngle", "", FocusX(position) * config.bodyTiltSensitivity,
                        (FocusY(position) * config.bodyTiltSensitivity) \div 2)>>
            /\ lastHandPosition' = position
       ELSE /\ controllerCalls' = <<>>
            /\ UNCHANGED lastHandPosition
    /\ Recorded("onHandPositionUpdate", "", position[1])
    /\ UNCHANGED <<storeVars, now, handVars, faceVars, avatarVars, iaVars, mapperInstance, config, lastGesture,
                   gestureCooldown, isListening, controllerReady, mapperTimers,
                   lastSwipeAt, lastTapAt, zoomSurprised>>

\* onGestureChange with at most cap timeouts of the swipe handlers pending
onGestureChangeWithin(gesture, cap) ==
    /\ mapperInstance
    /\ IF GestureAccepted(gesture) /\ ~isOnCooldown(gestureCooldown, gesture, now)
       THEN \E r \in {MapGesture(gesture, gestureCooldown, lastHandPosition, now)} :
              /\ Len(mapperTimers) + Len(r.timers) <= cap
              /\ controllerCalls' = r.calls
              /\ gestureCooldown' = r.cd
              /\ mapperTimers' = mapperTimers \o r.timers
              /\ lastGesture' = gesture
              /\ SwipeObserved(gesture \in {"swipe_left", "swipe_right"})
              /\ TapObserved(gesture = "click")
       ELSE /\ controllerCalls' = <<>>
            /\ UNCHANGED <<gestureCooldown, mapperTimers, lastGesture,
                           lastSwipeAt, lastTapAt>>
    /\ Recorded("onGestureChange", gesture, 0)
    /\ UNCHANGED <<storeVars, now, handVars, faceVars, avatarVars, iaVars, mapperInstance, config, lastHandPosition,
                   isListening, controllerReady, zoomSurprised>>

onGestureChange(gesture) == onGestureChangeWithin(gesture, MaxPending)

onAirClick(x, y) ==
    /\ mapperInstance
    /\ IF AirClickAccepted
       THEN /\ controllerCalls' = <<Call("setFocusFromScreenCoords", "", x, y),
                                    Call("tap", "", 0, 0)>>
            /\ gestureCooldown' = setCooldown(gestureCooldown, "click", 500, now)
            /\ TapObserved(TRUE)
       ELSE /\ controllerCalls' = <<>>
            /\ UNCHANGED <<gestureCooldown, lastTapAt>>
    /\ Recorded("onAirClick", "", x)
    /\ UNCHANGED <<storeVars, now, handVars, faceVars, avatarVars, iaVars, mapperInstance, config, lastGesture,
                   lastHandPosition, isListening, controllerReady, mapperTimers,
                   lastSwipeAt, zoomSurprised>>

onAirDrag(dx, dy) ==
    /\ mapperInstance
    /\ controllerCalls' =
          IF config.enabled /\ isListening /\ controllerReady
          THEN <<Call("setBodyAngle", "", Clamp(-30000, 30000, (dx * 5) \div 10),
                      Clamp(-15000, 15000, ((0 - dy) * 3) \div 10))>>
          ELSE <<>>
    /\ Recorded("onAirDrag", "", dx)
    /\ UNCHANGED <<storeVars, now, handVars, faceVars, avatarVars, iaVars, mapperInstance, config, lastGesture,
                   lastHandPosition, gestureCooldown, isListening, controllerReady,
                   mapperTimers, lastSwipeAt, lastTapAt, zoomSurprised>>

\* if (scale > 1.2)
ZoomedIn(scale) == scale > 1200

\* a faulty variant: the lower limit of the dead zone reacts too
ZoomedOut_Inclusive(scale) == scale <= 800

\* else if (scale < 0.8)
ZoomedOut(scale) == scale < 800

onPinchZoom(scale) ==
    /\ mapperInstance
    /\ IF config.enabled /\ config.gestureReactionsEnabled /\ isListening /\ controllerReady
       THEN IF ZoomedIn(scale)
            THEN /\ controllerCalls' = <<Call("setExpression", "surprised", 0, 0)>>
                 /\ gestureCooldown' = setCooldown(gestureCooldown, "pinch", 1000, now)
                 /\ zoomSurprised' = IF zoomSurprised < 2 THEN zoomSurprised + 1 ELSE 2
            ELSE /\ controllerCalls' = IF ZoomedOut(scale)
                                       THEN <<Call("setExpression", "default", 0, 0)>>
                                       ELSE <<>>
                 /\ zoomSurprised' = 0
                 /\ UNCHANGED gestureCooldown
       ELSE /\ controllerCalls' = <<>>
            /\ zoomSurprised' = IF scale > 1200 THEN zoomSurprised ELSE 0
            /\ UNCHANGED gestureCooldown
    /\ Recorded("onPinchZoom", "", scale)
    /\ UNCHANGED <<storeVars, now, handVars, faceVars, avatarVars, iaVars, mapperInstance, config, lastGesture,
                   lastHandPosition, isListening, controllerReady, mapperTimers,
                   lastSwipeAt, lastTapAt>>

\* setEnabled, setFocusTrackingEnabled, setGestureReactionsEnabled
SetConfig(c) ==
    /\ mapperInstance
    /\ config' = c
    /\ controllerCalls' = <<>>
    /\ Recorded("setConfig", "", 0)
    /\ UNCHANGED <<storeVars, now, handVars, faceVars, avatarVars, iaVars, mapperInstance, lastGesture, lastHandPosition,
                   gestureCooldown, isListening, controllerReady, mapperTimers,
                   lastSwipeAt, lastTapAt, zoomSurprised>>

setEnabled(enabled) == SetConfig([config EXCEPT !.enabled = enabled])

setFocusTrackingEnabled(enabled) ==
    SetConfig([config EXCEPT !.focusTrackingEnabled = enabled])

setGestureReactionsEnabled(enabled) ==
    SetConfig([config EXCEPT !.gestureReactionsEnabled = enabled])

SetListening(b) ==
    /\ mapperInstance
    /\ isListening' = b
    /\ controllerCalls' = <<>>
    /\ Recorded(IF b THEN "resume" ELSE "pause", "", 0)
    /\ UNCHANGED <<storeVars, now, handVars, faceVars, avatarVars, iaVars, mapperInstance, config, lastGesture,
                   lastHandPosition, gestureCooldown, controllerReady, mapperTimers,
                   lastSwipeAt, lastTapAt, zoomSurprised>>

pause == SetListening(FALSE)

resume == SetListening(TRUE)

\* dispose(): the pending timeouts of the swipe handlers are not cancelled
MapperDispose ==
    /\ mapperInstance
    /\ gestureCooldown' = NoCooldowns
    /\ lastHandPosition' = NoPosition
    /\ lastGesture' = "idle"
    /\ mapperInstance' = FALSE
    /\ controllerCalls' = <<>>
    /\ lastSwipeAt' = NoTime
    /\ lastTapAt' = NoTime
    /\ zoomSurprised' = 0
    /\ Recorded("dispose", "", 0)
    /\ UNCHANGED <<storeVars, now, handVars, faceVars, avatarVars, iaVars, config, isListening, controllerReady,
                   mapperTimers>>

\* getGestureMapper(): GestureMapper.getInstance constructs only when the static
\* instance is null
getInstance ==
    /\ IF ReuseInstance(mapperInstance)
       THEN UNCHANGED <<config, lastGesture, lastHandPosition, gestureCooldown,
                        isListening, controllerCalls>>
       ELSE /\ config' = DEFAULT_CONFIG
            /\ lastGesture' = "idle"
            /\ lastHandPosition' = NoPosition
            /\ gestureCooldown' = NoCooldowns
            /\ isListening' = TRUE
            /\ controllerCalls' = <<>>
    /\ mapperInstance' = TRUE
    /\ Recorded("getInstance", "", 0)
    /\ UNCHANGED <<storeVars, now, handVars, faceVars, avatarVars, iaVars, controllerReady, mapperTimers,
                   lastSwipeAt, lastTapAt, zoomSurprised>>

\* the setTimeout callback of handleSwipeLeft / handleSwipeRight
SwipeResetTimer ==
    /\ mapperTimers # <<>>
    /\ Head(mapperTimers) <= now
    /\ mapperTimers' = Tail(mapperTimers)
    /\ controllerCalls' = <<Call("setTargetFocus", "", 0, 0), Call("setBodyAngle", "", 0, 0)>>
    /\ Recorded("timeout", "", 0)
    /\ UNCHANGED <<storeVars, now, handVars, faceVars, avatarVars, iaVars, mapperInstance, config, lastGesture,
                   lastHandPosition, gestureCooldown, isListening, controllerReady,
                   lastSwipeAt, lastTapAt, zoomSurprised>>

\* the model finishes loading (loadModel then starts the idle motion), or the
\* controller is disposed: isReady() changes
ControllerReadyChange ==
    /\ controllerReady' = ~controllerReady
    /\ controllerCalls' = <<>>
    /\ avatarCalls' = IF controllerReady THEN <<>> ELSE <<Call("playIdleMotion", "", 0, 0)>>
    /\ avatarOp' = AvatarOp(IF controllerReady THEN "dispose" ELSE "loadModel", 0)
    /\ Recorded("ready", "", 0)
    /\ UNCHANGED <<lsInstance, lsConfig, lsIsSpeaking, currentOpenness, lsSmoothedOpenness,
                   attentiveStartTime, emConfig, isTrackingActive, targetMouthOpenness,
                   emLastFace, speakingEnded, emWrites,
                   emError, parameterCache, emModel>>
    /\ UNCHANGED <<storeVars, now, handVars, faceVars, iaVars, mapperInstance, config, lastGesture,
                   lastHandPosition, gestureCooldown, isListening, mapperTimers,
                   lastSwipeAt, lastTapAt, zoomSurprised>>

\* MapperTickMs pass; a due timeout runs before more time passes
MapperTick ==
    /\ now < MaxNow
    /\ IF mapperTimers = <<>> THEN TRUE ELSE Head(mapperTimers) > now
    /\ now' = now + MapperTickMs
    /\ controllerCalls' = <<>>
    /\ Recorded("tick", "", 0)
    /\ UNCHANGED <<storeVars, handVars, faceVars, avatarVars, iaVars, mapperInstance, config, lastGesture,
                   lastHandPosition, gestureCooldown, isListening, controllerReady,
                   mapperTimers, lastSwipeAt, lastTapAt, zoomSurprised>>

MapperConstructed ==
    /\ mapperInstance = TRUE
    /\ config = DEFAULT_CONFIG
    /\ lastGesture = "idle"
    /\ lastHandPosition = NoPosition
    /\ gestureCooldown = NoCooldowns
    /\ isListening = TRUE
    /\ controllerReady = FALSE
    /\ mapperTimers = <<>>
    /\ controllerCalls = <<>>
    /\ lastSwipeAt = NoTime
    /\ lastTapAt = NoTime
    /\ zoomSurprised = 0

MapperInit ==
    /\ MapperConstructed
    /\ mapperOp = NotRecorded

\* ============================================================ LipSyncController
\* sensitivity and smoothing are in tenths; the openness values of the lip-sync
\* channel (raw, smoothed, current, target) are in hundredths
LS_DEFAULT_CONFIG ==
    [ enabled |-> TRUE,
      sensitivity |-> 20,
      smoothing |-> 3,
      minOpenness |-> 1,
      maxOpenness |-> 100,
      attentivePoseEnabled |-> TRUE ]

ATTENTIVE_BODY_ANGLE_Z == 5

\* inputs of onMouthOpennessUpdate: below the gate, moderate, past the cap
RawOpennessInputs == {-10, 0, 40, 80}
\* inputs of setSensitivity and setSmoothing, in tenths
SensitivityInputs == {20, 100}
SmoothingInputs == {3, 15}

\* Live2DController.setMouthOpenness(value): the new targetMouthOpenness
setMouthOpenness(value) == Clamp(0, 100, value)

\* if (rawOpenness < minOpenness) rawOpenness = 0
GateOpenness(raw, cfg) == IF raw < cfg.minOpenness THEN 0 ELSE raw

\* a faulty variant: no cap
CapOpenness_None(openness, cfg) == openness

\* Math.min(openness, maxOpenness)
CapOpenness(openness, cfg) ==
    IF openness < cfg.maxOpenness THEN openness ELSE cfg.maxOpenness

\* smoothedOpenness * (1 - smoothing) + openness * smoothing
SmoothLipSync(smoothed, openness, cfg) ==
    (smoothed * (10 - cfg.smoothing) + openness * cfg.smoothing) \div 10

\* enterAttentiveMode(): the controller calls
enterAttentiveMode ==
    IF controllerReady
    THEN <<Call("setTargetFocus", "", 0, 0),
           Call("setBodyAngle", "", 0, ATTENTIVE_BODY_ANGLE_Z)>>
    ELSE <<>>

\* exitAttentiveMode(): the controller calls
exitAttentiveMode ==
    IF controllerReady
    THEN <<Call("setBodyAngle", "", 0, 0), Call("playIdleMotion", "", 0, 0)>>
    ELSE <<>>

LipSyncSkip(op, arg) ==
    /\ avatarCalls' = <<>>
    /\ avatarOp' = AvatarOp(op, arg)
    /\ UNCHANGED <<lsInstance, lsConfig, lsIsSpeaking, currentOpenness, lsSmoothedOpenness,
                   attentiveStartTime, targetMouthOpenness, speakingEnded>>

onSpeakingStart ==
    /\ lsInstance
    /\ IF ~lsConfig.enabled
       THEN LipSyncSkip("onSpeakingStart", 0)
       ELSE /\ lsIsSpeaking' = TRUE
            /\ attentiveStartTime' = now
            /\ avatarCalls' = IF lsConfig.attentivePoseEnabled THEN enterAttentiveMode
                              ELSE <<>>
            /\ avatarOp' = AvatarOp("onSpeakingStart", 0)
            /\ speakingEnded' = FALSE
            /\ UNCHANGED <<lsInstance, lsConfig, currentOpenness, lsSmoothedOpenness,
                           targetMouthOpenness>>
    /\ UNCHANGED <<storeVars, now, handVars, faceVars, mapperVars, iaVars, emConfig, isTrackingActive,
                   emLastFace, emWrites,
                   emError, parameterCache, emModel>>

onSpeakingEnd ==
    /\ lsInstance
    /\ IF ~lsConfig.enabled
       THEN LipSyncSkip("onSpeakingEnd", 0)
       ELSE /\ lsIsSpeaking' = FALSE
            /\ attentiveStartTime' = NoTime
            /\ targetMouthOpenness' = IF controllerReady THEN setMouthOpenness(0)
                                      ELSE targetMouthOpenness
            /\ avatarCalls' =
                  (IF controllerReady THEN <<Call("setMouthOpenness", "", 0, 0)>> ELSE <<>>)
                  \o (IF lsConfig.attentivePoseEnabled THEN exitAttentiveMode ELSE <<>>)
            /\ avatarOp' = AvatarOp("onSpeakingEnd", 0)
            /\ speakingEnded' = TRUE
            /\ UNCHANGED <<lsInstance, lsConfig, currentOpenness, lsSmoothedOpenness>>
    /\ UNCHANGED <<storeVars, now, handVars, faceVars, mapperVars, iaVars, emConfig, isTrackingActive,
                   emLastFace, emWrites,
                   emError, parameterCache, emModel>>

onMouthOpennessUpdate(rawOpenness) ==
    /\ lsInstance
    /\ IF ~lsConfig.enabled \/ ~controllerReady
       THEN LipSyncSkip("onMouthOpennessUpdate", rawOpenness)
       ELSE LET gated == GateOpenness(rawOpenness, lsConfig)
                openness == CapOpenness((gated * lsConfig.sensitivity) \div 10, lsConfig)
                smoothed == SmoothLipSync(lsSmoothedOpenness, openness, lsConfig)
            IN  /\ lsSmoothedOpenness' = smoothed
                /\ currentOpenness' = smoothed
                /\ targetMouthOpenness' = setMouthOpenness(smoothed)
                /\ avatarCalls' = <<Call("setMouthOpenness", "", smoothed, 0)>>
                /\ avatarOp' = AvatarOp("onMouthOpennessUpdate", rawOpenness)
                /\ UNCHANGED <<lsInstance, lsConfig, lsIsSpeaking, attentiveStartTime,
                               speakingEnded>>
    /\ UNCHANGED <<storeVars, now, handVars, faceVars, mapperVars, iaVars, emConfig, isTrackingActive,
                   emLastFace, emWrites,
                   emError, parameterCache, emModel>>

\* the setters of the configuration
LipSyncSetConfig(op, arg, c) ==
    /\ lsInstance
    /\ lsConfig' = c
    /\ avatarCalls' = <<>>
    /\ avatarOp' = AvatarOp(op, arg)
    /\ UNCHANGED <<lsInstance, lsIsSpeaking, currentOpenness, lsSmoothedOpenness,
                   attentiveStartTime, targetMouthOpenness, speakingEnded>>
    /\ UNCHANGED <<storeVars, now, handVars, faceVars, mapperVars, iaVars, emConfig, isTrackingActive,
                   emLastFace, emWrites,
                   emError, parameterCache, emModel>>

lsSetEnabled(enabled) ==
    LipSyncSetConfig("setEnabled", 0, [lsConfig EXCEPT !.enabled = enabled])

setSensitivity(sensitivity) ==
    LipSyncSetConfig("setSensitivity", sensitivity,
                     [lsConfig EXCEPT !.sensitivity = Clamp(1, 50, sensitivity)])

setSmoothing(smoothing) ==
    LipSyncSetConfig("setSmoothing", smoothing,
                     [lsConfig EXCEPT !.smoothing = Clamp(0, 10, smoothing)])

setAttentivePoseEnabled(enabled) ==
    LipSyncSetConfig("setAttentivePoseEnabled", 0,
                     [lsConfig EXCEPT !.attentivePoseEnabled = enabled])

LipSyncDispose ==
    /\ lsInstance
    /\ lsIsSpeaking' = FALSE
    /\ currentOpenness' = 0
    /\ lsSmoothedOpenness' = 0
    /\ attentiveStartTime' = NoTime
    /\ lsInstance' = FALSE
    /\ avatarCalls' = <<>>
    /\ avatarOp' = AvatarOp("dispose", 0)
    /\ speakingEnded' = FALSE
    /\ UNCHANGED <<lsConfig, targetMouthOpenness>>
    /\ UNCHANGED <<storeVars, now, handVars, faceVars, mapperVars, iaVars, emConfig, isTrackingActive,
                   emLastFace, emWrites,
                   emError, parameterCache, emModel>>

\* getLipSyncController() after a dispose: a new instance
LipSyncGetInstance ==
    /\ ~lsInstance
    /\ lsInstance' = TRUE
    /\ lsConfig' = LS_DEFAULT_CONFIG
    /\ lsIsSpeaking' = FALSE
    /\ currentOpenness' = 0
    /\ lsSmoothedOpenness' = 0
    /\ attentiveStartTime' = NoTime
    /\ avatarCalls' = <<>>
    /\ avatarOp' = AvatarOp("getInstance", 0)
    /\ UNCHANGED <<targetMouthOpenness, speakingEnded>>
    /\ UNCHANGED <<storeVars, now, handVars, faceVars, mapperVars, iaVars, emConfig, isTrackingActive,
                   emLastFace, emWrites,
                   emError, parameterCache, emModel>>

LipSyncInit ==
    /\ lsInstance = TRUE
    /\ lsConfig = LS_DEFAULT_CONFIG
    /\ lsIsSpeaking = FALSE
    /\ currentOpenness = 0
    /\ lsSmoothedOpenness = 0
    /\ attentiveStartTime = NoTime
    /\ speakingEnded = FALSE

\* ============================================================= ExpressionMapper
EM_DEFAULT_CONFIG ==
    [ enabled |-> TRUE, eyeTrackingEnabled |-> TRUE, browTrackingEnabled |-> TRUE,
      headTrackingEnabled |-> TRUE, mouthTrackingEnabled |-> TRUE,
      gazeTrackingEnabled |-> TRUE ]

\* FaceExpressionData, as far as the tracking mode reads it
FaceDataInputs == { [faceDetected |-> d] : d \in BOOLEAN }

\* the alias names of each channel, in the order they are tried
PARAM_NAMES ==
    [ eyeLOpen |-> <<"ParamEyeLOpen", "PARAM_EYE_L_OPEN", "EyeLOpen">>,
      eyeROpen |-> <<"ParamEyeROpen", "PARAM_EYE_R_OPEN", "EyeROpen">>,
      browLY |-> <<"ParamBrowLY", "PARAM_BROW_L_Y", "BrowLY">>,
      browRY |-> <<"ParamBrowRY", "PARAM_BROW_R_Y", "BrowRY">>,
      angleX |-> <<"ParamAngleX", "PARAM_ANGLE_X", "AngleX">>,
      angleY |-> <<"ParamAngleY", "PARAM_ANGLE_Y", "AngleY">>,
      angleZ |-> <<"ParamAngleZ", "PARAM_ANGLE_Z", "AngleZ">>,
      bodyAngleX |-> <<"ParamBodyAngleX", "PARAM_BODY_ANGLE_X", "BodyAngleX">>,
      bodyAngleZ |-> <<"ParamBodyAngleZ", "PARAM_BODY_ANGLE_Z", "BodyAngleZ">>,
      mouthOpenY |-> <<"ParamMouthOpenY", "PARAM_MOUTH_OPEN_Y", "MouthOpenY">>,
      mouthForm |-> <<"ParamMouthForm", "PARAM_MOUTH_FORM", "MouthForm">>,
      eyeBallX |-> <<"ParamEyeBallX", "PARAM_EYE_BALL_X", "EyeBallX">>,
      eyeBallY |-> <<"ParamEyeBallY", "PARAM_EYE_BALL_Y", "EyeBallY">> ]

Range(seq) == { seq[i] : i \in 1..Len(seq) }

\* the channels applyEyeTracking, applyBrowTracking, applyHeadTracking,
\* applyMouthTracking and applyGazeTracking set, in the order of the calls
ChannelsOf(cfg) ==
    (IF cfg.eyeTrackingEnabled THEN <<"eyeLOpen", "eyeROpen">> ELSE <<>>)
    \o (IF cfg.browTrackingEnabled THEN <<"browLY", "browRY">> ELSE <<>>)
    \o (IF cfg.headTrackingEnabled
        THEN <<"angleX", "angleY", "angleZ", "bodyAngleX", "bodyAngleZ">> ELSE <<>>)
    \o (IF cfg.mouthTrackingEnabled THEN <<"mouthOpenY", "mouthForm">> ELSE <<>>)
    \o (IF cfg.gazeTrackingEnabled THEN <<"eyeBallX", "eyeBallY">> ELSE <<>>)

\* an internalModel, as far as setParameter asks it: the ids coreModel._model lists,
\* the names coreModel.getParameterIndex finds and those it throws on, whether
\* internalModel.model.setParamFloat and internalModel.setParameter are functions and
\* the names they throw on
InternalModel(present, core, ids, index, lookupThrows, float, floatThrows, setter,
              setterThrows) ==
    [ present |-> present, core |-> core, ids |-> ids, index |-> index,
      lookupThrows |-> lookupThrows, float |-> float, floatThrows |-> floatThrows,
      setter |-> setter, setterThrows |-> setterThrows ]

AllNames == UNION { Range(PARAM_NAMES[c]) : c \in DOMAIN PARAM_NAMES }

\* the i-th alias of every channel
NamesAt(i) == { PARAM_NAMES[c][i] : c \in DOMAIN PARAM_NAMES }

AliasesOf(channels) == UNION { Range(PARAM_NAMES[c]) : c \in channels }

\* no model loaded, or one without internalModel
NoInternalModel == InternalModel(FALSE, FALSE, {}, {}, {}, FALSE, {}, FALSE, {})

\* a model whose core lists the first alias of every channel
StandardModel == InternalModel(TRUE, TRUE, NamesAt(1), {}, {}, FALSE, {}, FALSE, {})

\* the same without brows
BrowlessModel ==
    InternalModel(TRUE, TRUE, NamesAt(1) \ AliasesOf({"browLY", "browRY"}), {}, {},
                  FALSE, {}, FALSE, {})

\* a core without a list of ids: the lookup throws on the first aliases and finds the
\* second ones, the mouth excepted
IndexedModel ==
    InternalModel(TRUE, TRUE, {}, NamesAt(2) \ AliasesOf({"mouthOpenY", "mouthForm"}),
                  NamesAt(1), FALSE, {}, FALSE, {})

\* a core whose lookup throws on every name
ThrowingModel == InternalModel(TRUE, TRUE, {}, {}, AllNames, FALSE, {}, FALSE, {})

\* no core; setParamFloat takes the second aliases, the left eye excepted
FloatModel ==
    InternalModel(TRUE, FALSE, {}, {}, {}, TRUE,
                  (AllNames \ NamesAt(2)) \cup AliasesOf({"eyeLOpen"}), FALSE, {})

\* internalModel.setParameter alone, which throws on the head angles X and Y
SetterModel ==
    InternalModel(TRUE, FALSE, {}, {}, {}, FALSE, {}, TRUE, AliasesOf({"angleX", "angleY"}))

\* a core that lists the eyes and throws on the brows, beside a setParamFloat that
\* takes the third aliases of the mouth only
MixedModel ==
    InternalModel(TRUE, TRUE, {"ParamEyeLOpen", "ParamEyeROpen"}, {},
                  AliasesOf({"browLY", "browRY"}), TRUE,
                  AllNames \ {"MouthOpenY", "MouthForm"}, FALSE, {})

\* an internalModel with none of the three ways
BareModel == InternalModel(TRUE, FALSE, {}, {}, {}, FALSE, {}, FALSE, {})

InternalModels ==
    { NoInternalModel, StandardModel, BrowlessModel, IndexedModel, ThrowingModel,
      FloatModel, SetterModel, MixedModel, BareModel }

\* the outcome of setParameter, or of a part of it: the write made, if any, and
\* whether an exception leaves it
SetResult(writes, error) == [writes |-> writes, error |-> error]

Write(name, via) == [name |-> name, via |-> via]

\* a faulty variant: no try / catch around the lookup of a name
CoreLookupThrown_Uncaught == SetResult(<<>>, TRUE)

\* catch (e) { /* try the next name */ } of the coreModel loop
CoreLookupThrown == SetResult(<<>>, FALSE)

\* one name of the coreModel loop: the ids of coreModel._model, then
\* coreModel.getParameterIndex(name)
TryCoreName(im, name) ==
    IF name \in im.ids THEN SetResult(<<Write(name, "_model")>>, FALSE)
    ELSE IF name \in im.lookupThrows THEN CoreLookupThrown
    ELSE IF name \in im.index THEN SetResult(<<Write(name, "coreModel")>>, FALSE)
    ELSE SetResult(<<>>, FALSE)

\* for (const name of paramNames) over the names from the i-th on: the first name
\* that is set ends setParameter
RECURSIVE CoreLoop(_, _, _)
CoreLoop(im, names, i) ==
    IF i > Len(names) THEN SetResult(<<>>, FALSE)
    ELSE LET r == TryCoreName(im, names[i])
         IN  IF r.writes # <<>> \/ r.error THEN r ELSE CoreLoop(im, names, i + 1)

\* the loop over model.setParamFloat: a name that throws is skipped
RECURSIVE FloatLoop(_, _, _)
FloatLoop(im, names, i) ==
    IF i > Len(names) THEN SetResult(<<>>, FALSE)
    ELSE IF names[i] \in im.floatThrows THEN FloatLoop(im, names, i + 1)
    ELSE SetResult(<<Write(names[i], "setParamFloat")>>, FALSE)

\* try { for (...) internalModel.setParameter(name, value) } catch {}: the first name
\* is set or its exception ends the loop
SetterLoop(im, names) ==
    IF names[1] \in im.setterThrows THEN SetResult(<<>>, FALSE)
    ELSE SetResult(<<Write(names[1], "setParameter")>>, FALSE)

\* setParameter(internalModel, paramNames, value), without the value
setParameter(im, names) ==
    LET m1 == IF im.core THEN CoreLoop(im, names, 1) ELSE SetResult(<<>>, FALSE)
        m2 == IF im.float THEN FloatLoop(im, names, 1) ELSE SetResult(<<>>, FALSE)
        m3 == IF im.setter THEN SetterLoop(im, names) ELSE SetResult(<<>>, FALSE)
    IN  IF m1.writes # <<>> \/ m1.error THEN m1
        ELSE IF m2.writes # <<>> THEN m2
        ELSE m3

\* the apply... calls of updateFromFaceData from the i-th channel on: an exception
\* ends the call, the channels after it are not applied
RECURSIVE ApplyChannels(_, _, _)
ApplyChannels(im, channels, i) ==
    IF i > Len(channels) THEN [writes |-> <<>>, error |-> FALSE, keys |-> {}]
    ELSE LET r == setParameter(im, PARAM_NAMES[channels[i]])
             key == PARAM_NAMES[channels[i]][1]
         IN  IF r.error THEN [writes |-> r.writes, error |-> TRUE, keys |-> {key}]
             ELSE LET rest == ApplyChannels(im, channels, i + 1)
                  IN  [writes |-> r.writes \o rest.writes, error |-> rest.error,
                       keys |-> {key} \cup rest.keys]

\* a faulty variant: the mode is switched on at every tracked frame
ShouldStartTracking_EveryFrame(active) == TRUE

\* if (!this.isTrackingActive)
ShouldStartTracking(active) == ~active

\* updateFromFaceData(data) with controller.getModel()?.internalModel being im; the
\* values written, their smoothing and the frame counter of the debug output are
\* left out
updateFromFaceData(data, im) ==
    /\ avatarOp' = AvatarOp("updateFromFaceData", IF data.faceDetected THEN 1 ELSE 0)
    /\ emModel' = im
    /\ emLastFace' = data.faceDetected
    /\ IF ~emConfig.enabled \/ ~data.faceDetected
       THEN /\ avatarCalls' = IF isTrackingActive
                              THEN <<Call("setExpressionTrackingMode", "false", 0, 0),
                                     Call("playIdleMotion", "", 0, 0)>>
                              ELSE <<>>
            /\ isTrackingActive' = FALSE
            /\ emWrites' = <<>>
            /\ emError' = FALSE
            /\ UNCHANGED parameterCache
       ELSE IF ~controllerReady
       THEN /\ avatarCalls' = <<>>
            /\ emWrites' = <<>>
            /\ emError' = FALSE
            /\ UNCHANGED <<isTrackingActive, parameterCache>>
       ELSE /\ avatarCalls' = IF ShouldStartTracking(isTrackingActive)
                              THEN <<Call("setExpressionTrackingMode", "true", 0, 0),
                                     Call("stopAllMotions", "", 0, 0)>>
                              ELSE <<>>
            /\ isTrackingActive' = TRUE
            /\ IF ~im.present
               THEN /\ emWrites' = <<>>
                    /\ emError' = FALSE
                    /\ UNCHANGED parameterCache
               ELSE \E r \in {ApplyChannels(im, ChannelsOf(emConfig), 1)} :
                      /\ emWrites' = r.writes
                      /\ emError' = r.error
                      /\ parameterCache' = parameterCache \cup r.keys
    /\ UNCHANGED <<storeVars, now, handVars, faceVars, mapperVars, iaVars, lsInstance, lsConfig, lsIsSpeaking,
                   currentOpenness, lsSmoothedOpenness, attentiveStartTime, emConfig,
                   targetMouthOpenness, speakingEnded>>

updateConfig(c) ==
    /\ emConfig' = c
    /\ emWrites' = <<>>
    /\ emError' = FALSE
    /\ avatarCalls' = <<>>
    /\ avatarOp' = AvatarOp("updateConfig", 0)
    /\ UNCHANGED <<storeVars, now, handVars, faceVars, mapperVars, iaVars, lsInstance, lsConfig, lsIsSpeaking,
                   currentOpenness, lsSmoothedOpenness, attentiveStartTime,
                   isTrackingActive, targetMouthOpenness, emLastFace, speakingEnded, parameterCache, emModel>>

ExpressionMapperInit ==
    /\ emConfig = EM_DEFAULT_CONFIG
    /\ isTrackingActive = FALSE
    /\ emLastFace = FALSE
    /\ emWrites = <<>>
    /\ emError = FALSE
    /\ parameterCache = {}
    /\ emModel = NoInternalModel

\* ======================================================== InteractionController
\* scales, sensitivities and positions are in thousandths
IA_DEFAULT_CONFIG ==
    [ clickExplosionRadius |-> 5000,
      dragSensitivity |-> 10,
      zoomSensitivity |-> 100,
      smoothingFactor |-> 200 ]

\* the state the constructor and reset() install
DefaultInteractionState ==
    [ isPointing |-> FALSE,
      isSpeakingAndPointing |-> FALSE,
      selectedRegion |-> NoPosition,
      hoverTarget |-> NULL ]

\* the scales of onPinchZoom: 0.1, 0.5, 2 and 5
ScaleInputs == {100, 500, 2000, 5000}

\* the gestures the controller is told of
InteractionGestures == {"idle", "point", "pinch"}

\* the one drag of the feed: dx = dy = 0.1
DragInput == <<100, 100>>

\* raycaster.ray.at(30, ...) of the ray the camera casts through a pointer: the point
\* is given by the pointer and the depth
RayAt(pointer) == <<pointer[1], pointer[2], 30>>

IaOp(op, arg, calls, selected) ==
    [op |-> op, arg |-> arg, calls |-> calls, selected |-> selected]

\* a faulty variant: the flag follows the pointing gesture alone
CombinedState_PointingOnly(speaking, pointing) == pointing

\* this.isSpeaking && this.state.isPointing
CombinedState(speaking, pointing) == speaking /\ pointing

\* a faulty variant: Math.min(2.5, v) alone
ClampScale_NoFloor(v) == IF v > 2500 THEN 2500 ELSE v

\* Math.max(0.3, Math.min(2.5, v))
ClampScale(v) == Clamp(300, 2500, v)

setParticleSystem ==
    /\ iaInstance
    /\ particleSystem' = TRUE
    /\ iaOp' = IaOp("setParticleSystem", 0, <<>>, FALSE)
    /\ UNCHANGED <<storeVars, now, handVars, faceVars, mapperVars, avatarVars, iaInstance, camera,
                   currentGesture, iaIsSpeaking, pointerPosition, lastPointerPosition,
                   currentScale, targetScale, iaState>>

setCamera ==
    /\ iaInstance
    /\ camera' = TRUE
    /\ iaOp' = IaOp("setCamera", 0, <<>>, FALSE)
    /\ UNCHANGED <<storeVars, now, handVars, faceVars, mapperVars, avatarVars, iaInstance,
                   particleSystem, currentGesture, iaIsSpeaking, pointerPosition,
                   lastPointerPosition, currentScale, targetScale, iaState>>

\* handleGestureChange(gesture); selectRegionAtPointer is called when the combined flag
\* holds and a camera is set
handleGestureChange(gesture) ==
    LET pointing == gesture = "point"
        combined == CombinedState(iaIsSpeaking, pointing)
        selects == combined /\ camera
    IN  /\ iaInstance
        /\ currentGesture' = gesture
        /\ iaState' = [iaState EXCEPT !.isPointing = pointing,
                                      !.isSpeakingAndPointing = combined,
                                      !.selectedRegion =
                                          IF selects THEN RayAt(pointerPosition) ELSE @]
        /\ iaOp' = IaOp("handleGestureChange", 0, <<>>, selects)
        /\ UNCHANGED <<storeVars, now, handVars, faceVars, mapperVars, avatarVars, iaInstance,
                       particleSystem, camera, iaIsSpeaking, pointerPosition,
                       lastPointerPosition, currentScale, targetScale>>

\* handleAirClick(x, y): the explosion at the point the ray reaches at depth 30
handleAirClick(x, y) ==
    /\ iaInstance
    /\ iaOp' = IaOp("handleAirClick", 0,
                    IF particleSystem /\ camera THEN <<"triggerExplosion">> ELSE <<>>, FALSE)
    /\ UNCHANGED <<storeVars, now, handVars, faceVars, mapperVars, avatarVars, iaInstance,
                   particleSystem, camera, currentGesture, iaIsSpeaking, pointerPosition,
                   lastPointerPosition, currentScale, targetScale, iaState>>

\* handleAirDrag(dx, dy)
handleAirDrag(dx, dy) ==
    /\ iaInstance
    /\ pointerPosition[1] < MaxPointer
    /\ IF ~particleSystem
       THEN /\ iaOp' = IaOp("handleAirDrag", 0, <<>>, FALSE)
            /\ UNCHANGED <<pointerPosition, lastPointerPosition>>
       ELSE /\ iaOp' = IaOp("handleAirDrag", 0, <<"setDragging">>, FALSE)
            /\ lastPointerPosition' = pointerPosition
            /\ pointerPosition' =
                  <<pointerPosition[1] + (dx * IA_DEFAULT_CONFIG.dragSensitivity) \div 1000,
                    pointerPosition[2] + (dy * IA_DEFAULT_CONFIG.dragSensitivity) \div 1000>>
    /\ UNCHANGED <<storeVars, now, handVars, faceVars, mapperVars, avatarVars, iaInstance,
                   particleSystem, camera, currentGesture, iaIsSpeaking, currentScale,
                   targetScale, iaState>>

\* handlePinchZoom(scale)
handlePinchZoom(scale) ==
    /\ iaInstance
    /\ targetScale' = IF ~particleSystem THEN targetScale
                      ELSE ClampScale((targetScale * scale) \div 1000)
    /\ iaOp' = IaOp("handlePinchZoom", scale, <<>>, FALSE)
    /\ UNCHANGED <<storeVars, now, handVars, faceVars, mapperVars, avatarVars, iaInstance,
                   particleSystem, camera, currentGesture, iaIsSpeaking, pointerPosition,
                   lastPointerPosition, currentScale, iaState>>

\* a faulty variant: the step is 1.2 times the remaining difference
SmoothScale_TooFar(current, target) ==
    current + ((target - current) * 1200) \div 1000

\* currentScale + (targetScale - currentScale) * smoothingFactor; in thousandths the
\* step is cut toward zero, so a difference under 1 / smoothingFactor thousandths
\* moves the scale no further
SmoothScale(current, target) ==
    IF target >= current
    THEN current + ((target - current) * IA_DEFAULT_CONFIG.smoothingFactor) \div 1000
    ELSE current - ((current - target) * IA_DEFAULT_CONFIG.smoothingFactor) \div 1000

\* update(deltaTime)
update ==
    /\ iaInstance
    /\ currentScale' = SmoothScale(currentScale, targetScale)
    /\ iaOp' = IaOp("update", 0,
                    IF particleSystem THEN <<"setScale", "update">> ELSE <<>>, FALSE)
    /\ UNCHANGED <<storeVars, now, handVars, faceVars, mapperVars, avatarVars, iaInstance,
                   particleSystem, camera, currentGesture, iaIsSpeaking, pointerPosition,
                   lastPointerPosition, targetScale, iaState>>

\* handleSpeakingStart()
handleSpeakingStart ==
    /\ iaInstance
    /\ iaIsSpeaking' = TRUE
    /\ iaState' = [iaState EXCEPT !.isSpeakingAndPointing = iaState.isPointing]
    /\ iaOp' = IaOp("handleSpeakingStart", 0,
                    IF particleSystem THEN <<"setPulsing">> ELSE <<>>, FALSE)
    /\ UNCHANGED <<storeVars, now, handVars, faceVars, mapperVars, avatarVars, iaInstance,
                   particleSystem, camera, currentGesture, pointerPosition,
                   lastPointerPosition, currentScale, targetScale>>

\* handleSpeakingEnd()
handleSpeakingEnd ==
    /\ iaInstance
    /\ iaIsSpeaking' = FALSE
    /\ iaState' = [iaState EXCEPT !.isSpeakingAndPointing = FALSE]
    /\ iaOp' = IaOp("handleSpeakingEnd", 0,
                    IF particleSystem THEN <<"setPulsing">> ELSE <<>>, FALSE)
    /\ UNCHANGED <<storeVars, now, handVars, faceVars, mapperVars, avatarVars, iaInstance,
                   particleSystem, camera, currentGesture, pointerPosition,
                   lastPointerPosition, currentScale, targetScale>>

\* reset()
InteractionReset ==
    /\ iaInstance
    /\ currentGesture' = "idle"
    /\ iaIsSpeaking' = FALSE
    /\ pointerPosition' = <<0, 0>>
    /\ lastPointerPosition' = <<0, 0>>
    /\ currentScale' = 1000
    /\ targetScale' = 1000
    /\ iaState' = DefaultInteractionState
    /\ iaOp' = IaOp("reset", 0, <<>>, FALSE)
    /\ UNCHANGED <<storeVars, now, handVars, faceVars, mapperVars, avatarVars, iaInstance,
                   particleSystem, camera>>

\* disposeInteractionController(): dispose() of the instance, then the module forgets it
disposeInteractionController ==
    /\ IF iaInstance
       THEN /\ particleSystem' = FALSE
            /\ camera' = FALSE
            /\ currentGesture' = "idle"
            /\ iaIsSpeaking' = FALSE
            /\ pointerPosition' = <<0, 0>>
            /\ lastPointerPosition' = <<0, 0>>
            /\ currentScale' = 1000
            /\ targetScale' = 1000
            /\ iaState' = DefaultInteractionState
       ELSE UNCHANGED <<particleSystem, camera, currentGesture, iaIsSpeaking,
                        pointerPosition, lastPointerPosition, currentScale, targetScale,
                        iaState>>
    /\ iaInstance' = FALSE
    /\ iaOp' = IaOp("disposeInteractionController", 0, <<>>, FALSE)
    /\ UNCHANGED <<storeVars, now, handVars, faceVars, mapperVars, avatarVars>>

\* getInteractionController(): a new controller only when the module holds none
getInteractionController ==
    /\ IF ReuseInstance(iaInstance)
       THEN UNCHANGED <<particleSystem, camera, currentGesture, iaIsSpeaking,
                        pointerPosition, lastPointerPosition, currentScale, targetScale,
                        iaState>>
       ELSE /\ particleSystem' = FALSE
            /\ camera' = FALSE
            /\ currentGesture' = "idle"
            /\ iaIsSpeaking' = FALSE
            /\ pointerPosition' = <<0, 0>>
            /\ lastPointerPosition' = <<0, 0>>
            /\ currentScale' = 1000
            /\ targetScale' = 1000
            /\ iaState' = DefaultInteractionState
    /\ iaInstance' = TRUE
    /\ iaOp' = IaOp("getInteractionController", 0, <<>>, FALSE)
    /\ UNCHANGED <<storeVars, now, handVars, faceVars, mapperVars, avatarVars>>

InteractionInit ==
    /\ iaInstance = TRUE
    /\ particleSystem = FALSE
    /\ camera = FALSE
    /\ currentGesture = "idle"
    /\ iaIsSpeaking = FALSE
    /\ pointerPosition = <<0, 0>>
    /\ lastPointerPosition = <<0, 0>>
    /\ currentScale = 1000
    /\ targetScale = 1000
    /\ iaState = DefaultInteractionState
    /\ iaOp = IaOp("none", 0, <<>>, FALSE)

AvatarInit ==
    /\ LipSyncInit
    /\ ExpressionMapperInit
    /\ targetMouthOpenness = 0
    /\ avatarCalls = <<>>
    /\ avatarOp = AvatarOp("none", 0)

\* ============================================================ useJarvisStore
\* a faulty variant: every trigger is forwarded
GestureDiffers_Always(currentGesture_, gestureType) == TRUE

\* if (currentGesture !== gestureType)
GestureDiffers(currentGesture_, gestureType) == currentGesture_ # gestureType

\* triggerGestureChange(gestureType): the new currentGesture and the calls of the
\* callback
triggerGestureChange(gestureType) ==
    IF GestureDiffers(storeCurrentGesture, gestureType)
    THEN [ currentGesture |-> gestureType,
           forwarded |-> IF storeCallback THEN <<gestureType>> ELSE <<>>,
           written |-> TRUE ]
    ELSE [ currentGesture |-> storeCurrentGesture, forwarded |-> <<>>, written |-> FALSE ]

\* onGestureChange of the hand-tracking hook: the store's trigger, then the menu
hookOnGestureChange(gesture) ==
    \E r \in {triggerGestureChange(gesture)} :
      /\ storeCurrentGesture' = r.currentGesture
      /\ storeForwarded' = r.forwarded
      /\ lastForwarded' = IF r.forwarded # <<>> THEN r.forwarded[1] ELSE lastForwarded
      /\ storeBypassed' = (storeBypassed \/ (r.written /\ r.forwarded = <<>>))
      /\ isMenuOpen' = IF gesture = "swipe_right" THEN TRUE
                       ELSE IF gesture = "swipe_left" THEN FALSE ELSE isMenuOpen
      /\ UNCHANGED <<now, handVars, faceVars, mapperVars, avatarVars, iaVars, storeCallback>>

\* setCurrentGesture(gesture): set({ currentGesture: gesture })
setCurrentGesture(gesture) ==
    /\ storeCurrentGesture' = gesture
    /\ storeForwarded' = <<>>
    /\ storeBypassed' = (storeBypassed \/ gesture # storeCurrentGesture)
    /\ UNCHANGED <<now, handVars, faceVars, mapperVars, avatarVars, iaVars, storeCallback,
                   isMenuOpen, lastForwarded>>

\* registerCallbacks(callbacks): the given callbacks are merged over the registered
\* ones; withGesture tells whether callbacks has an onGestureChange
registerCallbacks(withGesture) ==
    /\ storeCallback' = (storeCallback \/ withGesture)
    /\ storeForwarded' = <<>>
    /\ UNCHANGED <<now, handVars, faceVars, mapperVars, avatarVars, iaVars,
                   storeCurrentGesture, isMenuOpen, lastForwarded, storeBypassed>>

StoreInit ==
    /\ storeCurrentGesture = "idle"
    /\ storeCallback = FALSE
    /\ isMenuOpen = FALSE
    /\ storeForwarded = <<>>
    /\ lastForwarded = "none"
    /\ storeBypassed = FALSE

Init ==
    /\ now = 0
    /\ HandInit
    /\ FaceInit
    /\ MapperInit
    /\ AvatarInit
    /\ InteractionInit
    /\ StoreInit

\* the same state with the record of the GestureMapper's steps switched on
InitRecorded ==
    /\ now = 0
    /\ HandInit
    /\ FaceInit
    /\ MapperConstructed
    /\ mapperOp = MapperOp("constructor", "", 0)
    /\ AvatarInit
    /\ InteractionInit
    /\ StoreInit

NextHand ==
    \/ HandInitializeCall
    \/ \E ok \in BOOLEAN : HandInitializeDone(ok)
    \/ HandDispose
    \/ \E ts \in 0..MaxTs : HandProcessVideoFrame(ts, HandResults)
    \/ HandCooldownTimer
    \/ HandTick

SpecHand == Init /\ [][NextHand]_vars

NextFace ==
    \/ FaceInitializeCall
    \/ \E ok \in BOOLEAN : FaceInitializeDone(ok)
    \/ FaceDispose
    \/ \E ts \in 0..MaxTs : FaceProcessVideoFrame(ts, FaceResults)

SpecFace == Init /\ [][NextFace]_vars

\* the FaceTracker on frames with extreme landmark geometry; the video time of
\* successive frames does not decrease
NextExpression ==
    \/ FaceInitializeCall
    \/ \E ok \in BOOLEAN : FaceInitializeDone(ok)
    \/ FaceDispose
    \/ \E ts \in 0..MaxFrameTs :
          /\ ts \in {faceLastVideoTime, faceLastVideoTime + 1}
          /\ FaceProcessVideoFrame(ts, ExtremeFaceResults)

SpecExpression == Init /\ [][NextExpression]_vars

\* both trackers on the frames of one video, with a few results each
TrackerHandResults ==
    { <<>>,
      <<[label |-> "Left", lm |-> MkHand(400, 30, 0, "fist")]>>,
      <<[label |-> "Left", lm |-> MkHand(400, 100, -40, "fist")]>> }

TrackerFaceResults == { <<>>, <<MkFace(6)>> }

NextTrackers ==
    \/ HandInitializeCall
    \/ \E ok \in BOOLEAN : HandInitializeDone(ok)
    \/ \E ts \in 0..MaxTs : HandProcessVideoFrame(ts, TrackerHandResults)
    \/ HandCooldownTimer
    \/ HandTick
    \/ FaceInitializeCall
    \/ \E ok \in BOOLEAN : FaceInitializeDone(ok)
    \/ \E ts \in 0..MaxTs : FaceProcessVideoFrame(ts, TrackerFaceResults)

SpecTrackers == Init /\ [][NextTrackers]_vars

\* the feed of the lifecycle runs: no hand, a pinching hand, or a hand whose landmark
\* array is empty
LifecycleHandResults ==
    { <<>>,
      <<[label |-> "Left", lm |-> MkHand(400, 30, 0, "fist")]>>,
      <<[label |-> "Left", lm |-> EmptyLandmarks]>> }

\* both trackers from their first initialize() over disposals and further calls
NextLifecycle ==
    \/ HandInitializeCall
    \/ \E ok \in BOOLEAN : HandInitializeDone(ok)
    \/ HandInitializePollTimeout
    \/ getHandTracker
    \/ HandDispose
    \/ \E ts \in 0..MaxTs : HandProcessVideoFrame(ts, LifecycleHandResults)
    \/ FaceInitializeCall
    \/ \E ok \in BOOLEAN : FaceInitializeDone(ok)
    \/ FaceInitializePollTimeout
    \/ getFaceTracker
    \/ FaceDispose
    \/ \E ts \in 0..MaxTs : FaceProcessVideoFrame(ts, TrackerFaceResults)

SpecLifecycle == Init /\ [][NextLifecycle]_vars

\* the feed of the gesture recognizer: no hand, or a fist at every palm position,
\* thumb-index gap and depth
GestureResults ==
    {<<>>}
    \cup { <<[label |-> "Left", lm |-> MkHand(px, gap, z, "fist")]>> :
              px \in PalmXs, gap \in Gaps, z \in Depths }

NextGestures ==
    \/ HandInitializeCall
    \/ \E ok \in BOOLEAN : HandInitializeDone(ok)
    \/ \E ts \in 0..MaxTs : HandProcessVideoFrame(ts, GestureResults)
    \/ HandCooldownTimer
    \/ HandTick

SpecGestures == Init /\ [][NextGestures]_vars

\* the four singletons of the application: fetches, disposals and the calls that give
\* each instance a state a constructor would not produce
NextSingletons ==
    \/ getHandTracker
    \/ HandInitializeCall
    \/ \E ok \in BOOLEAN : HandInitializeDone(ok)
    \/ HandDispose
    \/ getFaceTracker
    \/ FaceInitializeCall
    \/ \E ok \in BOOLEAN : FaceInitializeDone(ok)
    \/ FaceDispose
    \/ getInstance
    \/ pause
    \/ MapperDispose
    \/ getInteractionController
    \/ setCamera
    \/ disposeInteractionController

SpecSingletons == Init /\ [][NextSingletons]_vars

NextInteraction ==
    \/ setParticleSystem
    \/ setCamera
    \/ \E g \in InteractionGestures : handleGestureChange(g)
    \/ handleAirClick(640, 360)
    \/ handleAirDrag(DragInput[1], DragInput[2])
    \/ \E sc \in ScaleInputs : handlePinchZoom(sc)
    \/ handleSpeakingStart
    \/ handleSpeakingEnd
    \/ InteractionReset
    \/ disposeInteractionController
    \/ getInteractionController

SpecInteraction == Init /\ [][NextInteraction]_vars

\* the scale of the particle system: zooms by a half and by two, and the render loop,
\* which calls update on every animation frame as long as the page lives
ZoomSteps == {500, 2000}

NextScale ==
    \/ setParticleSystem
    \/ \E sc \in ZoomSteps : handlePinchZoom(sc)
    \/ update
    \/ InteractionReset

\* the store between the hand tracker and the listeners of gesture changes
NextStore ==
    \/ \E g \in GestureTypes : hookOnGestureChange(g)
    \/ \E g \in GestureTypes : setCurrentGesture(g)
    \/ \E b \in BOOLEAN : registerCallbacks(b)

SpecStore == Init /\ [][NextStore]_vars

SpecScale == Init /\ [][NextScale]_vars /\ WF_vars(update)

NextMapper ==
    \/ \E l, r \in BOOLEAN : onHandDetected(l, r)
    \/ \E p \in HandPositions : onHandPositionUpdate(p)
    \/ \E g \in GestureTypes : onGestureChange(g)
    \/ \E c \in ClickPoints : onAirClick(c[1], c[2])
    \/ \E d \in DragDeltas : onAirDrag(d[1], d[2])
    \/ \E sc \in PinchScales : onPinchZoom(sc)
    \/ \E b \in BOOLEAN : setEnabled(b)
    \/ \E b \in BOOLEAN : setFocusTrackingEnabled(b)
    \/ \E b \in BOOLEAN : setGestureReactionsEnabled(b)
    \/ pause
    \/ resume
    \/ MapperDispose
    \/ getInstance
    \/ SwipeResetTimer
    \/ ControllerReadyChange
    \/ MapperTick

SpecMapper == Init /\ [][NextMapper]_vars

\* the GestureMapper with its steps recorded: swipes in close succession (the timeouts
\* of two swipes pending at a time), zoom scales at and around the limits of the dead
\* zone, and every handler called in every state of the three conditions
SwipeGestures == {"swipe_left", "swipe_right", "idle"}

ZoomScales == {500, 800, 1000, 1200, 1500}

NextReactions ==
    \/ \E l, r \in BOOLEAN : onHandDetected(l, r)
    \/ \E p \in HandPositions : onHandPositionUpdate(p)
    \/ \E g \in SwipeGestures : onGestureChangeWithin(g, MaxSwipePending)
    \/ \E c \in ClickPoints : onAirClick(c[1], c[2])
    \/ \E d \in DragDeltas : onAirDrag(d[1], d[2])
    \/ \E sc \in ZoomScales : onPinchZoom(sc)
    \/ \E b \in BOOLEAN : setEnabled(b)
    \/ pause
    \/ resume
    \/ SwipeResetTimer
    \/ ControllerReadyChange
    \/ MapperTick

SpecReactions == InitRecorded /\ [][NextReactions]_vars

NextLipSync ==
    \/ onSpeakingStart
    \/ onSpeakingEnd
    \/ \E raw \in RawOpennessInputs : onMouthOpennessUpdate(raw)
    \/ \E b \in BOOLEAN : lsSetEnabled(b)
    \/ \E v \in SensitivityInputs : setSensitivity(v)
    \/ \E v \in SmoothingInputs : setSmoothing(v)
    \/ \E b \in BOOLEAN : setAttentivePoseEnabled(b)
    \/ LipSyncDispose
    \/ LipSyncGetInstance
    \/ ControllerReadyChange

SpecLipSync == Init /\ [][NextLipSync]_vars

\* the avatar under the store subscription of Live2DAvatar: face data and speaking
\* changes
NextAvatar ==
    \/ \E data \in FaceDataInputs : updateFromFaceData(data, StandardModel)
    \/ \E b \in BOOLEAN : updateConfig([emConfig EXCEPT !.enabled = b])
    \/ onSpeakingStart
    \/ onSpeakingEnd
    \/ \E b \in BOOLEAN : setAttentivePoseEnabled(b)
    \/ ControllerReadyChange

SpecAvatar == Init /\ [][NextAvatar]_vars

\* the ExpressionMapper in front of avatar models of every make
NextParameters ==
    \/ \E data \in FaceDataInputs, im \in InternalModels : updateFromFaceData(data, im)
    \/ \E b \in BOOLEAN : updateConfig([emConfig EXCEPT !.enabled = b])
    \/ \E b \in BOOLEAN : updateConfig([emConfig EXCEPT !.browTrackingEnabled = b])
    \/ \E b \in BOOLEAN : updateConfig([emConfig EXCEPT !.headTrackingEnabled = b])
    \/ ControllerReadyChange

SpecParameters == Init /\ [][NextParameters]_vars

\* ===================================================================== claims
FCount(seq, cb) == Len(SelectSeq(seq, LAMBDA e : e.cb = cb))

\* C1: while a face is observed, onSpeakingStart fires only on a frame completing
\* at least 3 consecutive frames with smoothed openness above 0.02, onSpeakingEnd
\* only on one completing at least 6 consecutive frames not above it; the two
\* counters of the tracker are exactly the lengths of the current runs, so one
\* opposite frame puts the other counter back to 0.
C1_SpeakingDebounce ==
    /\ speakingState.consecutiveOpenFrames = openRun
    /\ speakingState.consecutiveClosedFrames = closedRun
    /\ (faceFrame = "face" /\ FCount(faceEvents, "onSpeakingStart") > 0) => openRun >= 3
    /\ (faceFrame = "face" /\ FCount(faceEvents, "onSpeakingEnd") > 0) => closedRun >= 6

W_C1_EndAfterSixClosed ==
    faceFrame = "face" /\ FCount(faceEvents, "onSpeakingEnd") = 1 /\ closedRun = 6

\* C2: two onAirClick of one continuously observed hand are at least 300 ms apart.
C2_ClickCooldown == clickGap = NoTime \/ clickGap >= 300

\* C3: onGestureChange('pinch') is emitted exactly on the first frame of each
\* maximal run of frames with thumb/index distance below 0.05, the pinch flag is
\* true exactly while the last frame was such a frame, and it goes back to false
\* only on a processed frame that is not pinching (distance >= 0.05, or no hand).
C3_PinchOncePerRun ==
    [][ /\ Count(handEvents', "onGestureChange", "pinch")
           = (IF handFrame' = "pinch" /\ handFrame # "pinch" THEN 1 ELSE 0)
        /\ gestureState'.isPinching = (handFrame' = "pinch")
        /\ (gestureState.isPinching /\ ~gestureState'.isPinching)
           => (handOutcome' = "processed" /\ handFrame' \in {"open", "nohand"})
      ]_handVars

W_C3_SustainedPinch ==
    /\ handFrame = "pinch" /\ handOutcome = "processed"
    /\ Count(handEvents, "onGestureChange", "pinch") = 0
    /\ gestureState.isPinching

\* C4 as stated: onGestureChange('idle') is emitted once per maximal run of
\* no-hand frames, on its first frame only.
C4_IdleOncePerRun ==
    [][ Count(handEvents', "onGestureChange", "idle")
        = (IF handFrame' = "nohand" /\ handFrame # "nohand" THEN 1 ELSE 0) ]_handVars

\* C5: a processVideoFrame call, of either tracker, whose video timestamp equals
\* the last one processed returns null, invokes no callback and leaves the gesture
\* state, the speaking state, the smoothed expression, the pending timers and the
\* recorded timestamp as they were.
C5_SameFrameNoOp ==
    /\ [][ (handCall' # NoTime /\ handCall' = handLastVideoTime) =>
             /\ handReturn' = NULL
             /\ handEvents' = <<>>
             /\ UNCHANGED <<gestureState, handTimers, handLastVideoTime>>
         ]_handVars
    /\ [][ (faceCall' # NoTime /\ faceCall' = faceLastVideoTime) =>
             /\ faceReturn' = NULL
             /\ faceEvents' = <<>>
             /\ UNCHANGED <<speakingState, smoothedExpression, faceLastVideoTime>>
         ]_faceVars

W_C5_SameFrameSkipped ==
    /\ handOutcome = "same frame" /\ handCall = handLastVideoTime
    /\ gestureState.isPinching
    /\ faceLastVideoTime = handLastVideoTime
    /\ speakingState.isSpeaking

\* C6: a no-face frame after a face frame emits exactly one onExpressionUpdate, with
\* faceDetected = false and every field neutral, one onSpeakingEnd if the tracker
\* was speaking and none otherwise, and leaves isSpeaking false.
C6_FaceLost ==
    [][ (faceFrame = "face" /\ faceFrame' = "noface") =>
          /\ FCount(faceEvents', "onExpressionUpdate") = 1
          /\ \A i \in 1..Len(faceEvents') :
                faceEvents'[i].cb = "onExpressionUpdate" =>
                   faceEvents'[i].expr =
                      [ leftEyeOpenness |-> 1000, rightEyeOpenness |-> 1000,
                        leftBrowY |-> 0, rightBrowY |-> 0,
                        headAngleX |-> 0, headAngleY |-> 0, headAngleZ |-> 0,
                        mouthOpenness |-> 0, mouthSmile |-> 0,
                        faceX |-> 500, faceY |-> 500, faceDetected |-> FALSE ]
          /\ FCount(faceEvents', "onSpeakingEnd")
             = (IF speakingState.isSpeaking THEN 1 ELSE 0)
          /\ ~speakingState'.isSpeaking
      ]_faceVars

W_C6_LostWhileSpeaking ==
    /\ faceFrame = "noface" /\ FCount(faceEvents, "onSpeakingEnd") = 1
    /\ FCount(faceEvents, "onExpressionUpdate") = 1

\* C7: every step fires at most one of onSpeakingStart / onSpeakingEnd, fires
\* onSpeakingStart exactly when isSpeaking goes from false to true and
\* onSpeakingEnd exactly when it goes from true to false; so the events alternate,
\* starting with onSpeakingStart.
C7_SpeakingEventsAlternate ==
    [][ /\ FCount(faceEvents', "onSpeakingStart")
           = (IF ~speakingState.isSpeaking /\ speakingState'.isSpeaking THEN 1 ELSE 0)
        /\ FCount(faceEvents', "onSpeakingEnd")
           = (IF speakingState.isSpeaking /\ ~speakingState'.isSpeaking THEN 1 ELSE 0)
      ]_faceVars

W_C7_StartFired ==
    /\ FCount(faceEvents, "onSpeakingStart") = 1 /\ speakingState.isSpeaking
    /\ FCount(faceEvents, "onSpeakingEnd") = 0

\* C8: consecutiveOpenFrames and consecutiveClosedFrames are never both non-zero.
C8_CountersExclusive ==
    speakingState.consecutiveOpenFrames = 0 \/ speakingState.consecutiveClosedFrames = 0

W_C8_ClosedWhileSpeaking ==
    speakingState.isSpeaking /\ speakingState.consecutiveClosedFrames >= 2

\* a swipe reaction, a click-driven tap, among the controller calls of a step
SwipeDispatched(calls) ==
    \E i \in 1..Len(calls) :
        calls[i].op = "setBodyAngle" /\ calls[i].a \in {-20000, 20000}

TapDispatched(calls) == \E i \in 1..Len(calls) : calls[i].op = "tap"

\* C9: a swipe reaction of the GestureMapper, in either direction, is dispatched no
\* sooner than 800 ms after the previous swipe reaction.
C9_SwipeCooldownShared ==
    [][ SwipeDispatched(controllerCalls') =>
          (lastSwipeAt = NoTime \/ now >= lastSwipeAt + 800) ]_mapperVars

\* C10: a click-driven tap motion of the GestureMapper is triggered no sooner than
\* 500 ms after the previous one.
C10_ClickTapCooldown ==
    [][ TapDispatched(controllerCalls') =>
          (lastTapAt = NoTime \/ now >= lastTapAt + 500) ]_mapperVars

\* C18: on every processed hand frame the first callback is onHandDetected(isLeft,
\* isRight) with isRight true exactly when some observed hand carries the raw label
\* 'left', isLeft true exactly when some observed hand carries the raw label 'right',
\* and both false when no hand is observed.
C18_HandednessMirrored ==
    handOutcome = "processed" =>
        /\ Len(handEvents) >= 1
        /\ handEvents[1].cb = "onHandDetected"
        /\ (handEvents[1].b = 1) = (\E l \in handLabels : toLowerCase(l) = "left")
        /\ (handEvents[1].a = 1) = (\E l \in handLabels : toLowerCase(l) = "right")
        /\ (handFrame = "nohand" => handEvents[1].a = 0 /\ handEvents[1].b = 0)

\* a processed frame with a single hand labelled 'Left', reported as the right hand
W_C18_RawLeftIsRight ==
    /\ handOutcome = "processed"
    /\ handLabels = {"Left"}
    /\ handEvents[1] = Ev("onHandDetected", "", 0, 1)

\* C19: a frame that starts a pinch emits onGestureChange('pinch') and no drag; a
\* following frame that is still pinching, with the palm centre displaced by more than
\* 0.02 on either axis since the previous frame, emits onAirDrag(100*dx, 100*dy) with
\* dx, dy the raw displacement between the two frames.
C19_PinchThenDrag ==
    [][ handOutcome' = "processed" /\ handFrame' = "pinch" =>
          IF ~gestureState.isPinching
          THEN /\ Count(handEvents', "onGestureChange", "pinch") = 1
               /\ Filter(handEvents', "onAirDrag") = <<>>
          ELSE LET dx == gestureState'.lastPosition[1] - gestureState.lastPosition[1]
                   dy == gestureState'.lastPosition[2] - gestureState.lastPosition[2]
               IN  IF Abs(dx) > 20 \/ Abs(dy) > 20
                   THEN Filter(handEvents', "onAirDrag")
                          = <<Ev("onAirDrag", "", 100 * dx, 100 * dy)>>
                   ELSE Filter(handEvents', "onAirDrag") = <<>> ]_handVars

\* a sustained pinch whose palm moved by 0.2 to the right: onAirDrag(20, 0)
W_C19_DragAfterPinch ==
    /\ handOutcome = "processed"
    /\ handFrame = "pinch"
    /\ gestureState.pinchStartPosition # gestureState.lastPosition
    /\ Filter(handEvents, "onAirDrag") = <<Ev("onAirDrag", "", 20000, 0)>>

\* C20: within one processed hand frame onHandDetected is the first callback, and
\* every onAirClick / onAirDrag of the frame comes after the frame's
\* onGestureChange('click') / onGestureChange('drag').
C20_FrameOrder ==
    handOutcome = "processed" =>
        /\ Len(handEvents) >= 1
        /\ handEvents[1].cb = "onHandDetected"
        /\ \A i \in 1..Len(handEvents) :
              /\ handEvents[i].cb = "onAirClick"
                   => \E j \in 1..(i - 1) :
                         handEvents[j] = Ev("onGestureChange", "click", 0, 0)
              /\ handEvents[i].cb = "onAirDrag"
                   => \E j \in 1..(i - 1) :
                         handEvents[j] = Ev("onGestureChange", "drag", 0, 0)

\* the documented ranges of the numeric fields of an expression vector
ExpressionInRange(e) ==
    /\ e.leftEyeOpenness \in 0..1000 /\ e.rightEyeOpenness \in 0..1000
    /\ e.leftBrowY \in -1000..1000 /\ e.rightBrowY \in -1000..1000
    /\ e.headAngleX \in -30000..30000
    /\ e.headAngleY \in -30000..30000
    /\ e.headAngleZ \in -30000..30000
    /\ e.mouthOpenness \in 0..1000
    /\ e.mouthSmile \in -1000..1000

\* C17: every emitted expression vector, and the smoothed vector the tracker keeps,
\* has eye openness in [0,1], brow Y in [-1,1], head angles in [-30,30], mouth
\* openness in [0,1] and smile in [-1,1], for any landmark geometry; on a frame whose
\* mouth has zero width the mouth openness is smoothed towards min(1, 3 * lip gap),
\* the gap taken unnormalized.
C17_ExpressionRanges ==
    [][ /\ ExpressionInRange(smoothedExpression')
        /\ \A i \in 1..Len(faceEvents') :
              faceEvents'[i].cb = "onExpressionUpdate"
                => ExpressionInRange(faceEvents'[i].expr)
        /\ (faceOutcome' = "processed" /\ faceFrame' = "face"
             /\ faceInput'.leftCorner.x = faceInput'.rightCorner.x)
            => LET gap == Abs(faceInput'.lowerLip.y - faceInput'.upperLip.y)
                   target == IF 3 * gap > 1000 THEN 1000 ELSE 3 * gap
                   prev == smoothedExpression.mouthOpenness
               IN  smoothedExpression'.mouthOpenness
                     = prev + ((target - prev) * 4) \div 10 ]_faceVars

\* a zero-width mouth with lips 0.2 apart, right after a face loss: mouth openness
\* 0.4 * min(1, 3 * 0.2) = 0.24 was emitted
W_C17_ZeroWidthMouth ==
    /\ faceOutcome = "processed"
    /\ faceInput = FaceDegenerate
    /\ smoothedExpression.mouthOpenness = 240
    /\ \E i \in 1..Len(faceEvents) :
          faceEvents[i].cb = "onExpressionUpdate" /\ faceEvents[i].expr = smoothedExpression

\* C11: over any sequence of onPinchZoom calls, setExpression('surprised') is issued
\* at most once within a maximal run of consecutive calls whose scale is > 1.2.
C11_SurprisedOncePerZoomRun == zoomSurprised <= 1

\* the cooldown a gesture's action arms: 'swipe' for both swipes, 'palm' for the open
\* palm, the gesture's own name otherwise
ActionCooldown(gesture) ==
    CASE gesture \in {"swipe_left", "swipe_right"} -> "swipe"
      [] gesture = "open_palm" -> "palm"
      [] OTHER -> gesture

\* C12: onGestureChange dispatches a reaction (and records the gesture as the last
\* one) only for a gesture that differs from the last gesture it reacted to and whose
\* action is not on an unexpired cooldown.
C12_ReactionRespectsCooldown ==
    [][ (mapperInstance /\ mapperInstance' /\ lastGesture' # lastGesture)
          => ~isOnCooldown(gestureCooldown, ActionCooldown(lastGesture'), now) ]_mapperVars

\* the setExpressionTrackingMode calls of a call log
ModeCalls(calls) == SelectSeq(calls, LAMBDA c : c.op = "setExpressionTrackingMode")

\* the calls of a call log that start the idle motion
IdleCalls(calls) == SelectSeq(calls, LAMBDA c : c.op = "playIdleMotion")

\* C13 as stated: setExpressionTrackingMode(true) and (false) strictly alternate
\* starting with true, at most one per updateFromFaceData call, and none is issued on
\* a frame whose faceDetected equals that of the previous frame.
C13_SwitchOnlyOnPresenceChange ==
    [][ LET m == ModeCalls(avatarCalls')
        IN  /\ Len(m) <= 1
            /\ m # <<>> =>
                  /\ avatarOp'.op = "updateFromFaceData"
                  /\ m[1].s = (IF isTrackingActive THEN "false" ELSE "true")
                  /\ emLastFace' # emLastFace ]_avatarVars

\* C13 amended: setExpressionTrackingMode(true) and (false) strictly alternate
\* starting with true, at most one per updateFromFaceData call and none from any other
\* operation; true is issued exactly on a frame with a face, with the mapper enabled
\* and the controller ready, while tracking is not active; false exactly on a frame
\* without a face or with the mapper disabled, while tracking is active.
C13_TrackingModeAlternates ==
    [][ LET m == ModeCalls(avatarCalls')
            tracked == emLastFace' /\ emConfig.enabled
        IN  /\ Len(m) <= 1
            /\ m # <<>> =>
                  /\ avatarOp'.op = "updateFromFaceData"
                  /\ m[1].s = (IF isTrackingActive THEN "false" ELSE "true")
            /\ avatarOp'.op = "updateFromFaceData" =>
                  /\ (m # <<>> /\ m[1].s = "true")
                       = (tracked /\ controllerReady /\ ~isTrackingActive)
                  /\ (m # <<>> /\ m[1].s = "false") = (~tracked /\ isTrackingActive)
                  /\ isTrackingActive' = (tracked /\ (controllerReady \/ isTrackingActive))
        ]_avatarVars

\* tracking was switched on by a frame with a face
W_C13_TrackingStarted ==
    /\ avatarOp = AvatarOp("updateFromFaceData", 1)
    /\ isTrackingActive
    /\ ModeCalls(avatarCalls) = <<Call("setExpressionTrackingMode", "true", 0, 0)>>

\* C14: while a face is tracked, that is after setExpressionTrackingMode(true) and
\* before the next setExpressionTrackingMode(false), no step starts the idle motion;
\* a step that starts it while tracking was active is the one that ends the tracking.
C14_NoIdleWhileTracked ==
    [][ IdleCalls(avatarCalls') # <<>> => ~(isTrackingActive /\ isTrackingActive')
      ]_avatarVars

\* C15: the lip-sync channel writes a mouth openness only while speaking, and from an
\* onSpeakingEnd until the next onSpeakingStart the avatar's mouth-openness target is 0.
C15_MouthClosedAfterSpeakingEnd ==
    [][ /\ speakingEnded' => targetMouthOpenness' = 0
        /\ (avatarOp'.op = "onMouthOpennessUpdate" /\ avatarCalls' # <<>>) => lsIsSpeaking
      ]_avatarVars

\* C16: every value onMouthOpennessUpdate writes to the avatar is in [0,1] and equals
\* (1 - smoothing) * previous + smoothing * min(sensitivity * gated, 1), where gated is
\* the input, or 0 for an input below 0.01; with the default configuration that is
\* 0.7 * previous + 0.3 * min(2 * gated, 1).
C16_LipSyncValue ==
    [][ (avatarOp'.op = "onMouthOpennessUpdate" /\ lsConfig.enabled /\ controllerReady) =>
          LET raw == avatarOp'.arg
              gated == IF raw < 1 THEN 0 ELSE raw
              scaled == (gated * lsConfig.sensitivity) \div 10
              capped == IF scaled > 100 THEN 100 ELSE scaled
              expected == (lsSmoothedOpenness * (10 - lsConfig.smoothing)
                           + capped * lsConfig.smoothing) \div 10
          IN  /\ avatarCalls' = <<Call("setMouthOpenness", "", expected, 0)>>
              /\ expected \in 0..100
              /\ targetMouthOpenness' = expected
              /\ lsConfig = LS_DEFAULT_CONFIG =>
                    expected = (7 * lsSmoothedOpenness
                                + 3 * (IF 2 * gated > 100 THEN 100 ELSE 2 * gated)) \div 10
      ]_avatarVars

\* with the default configuration an input of 0.8 after a smoothed 0.3 wrote
\* 0.7 * 0.3 + 0.3 * min(1.6, 1) = 0.51
W_C16_CappedAndSmoothed ==
    /\ avatarOp = AvatarOp("onMouthOpennessUpdate", 80)
    /\ lsConfig = LS_DEFAULT_CONFIG
    /\ avatarCalls = <<Call("setMouthOpenness", "", 51, 0)>>
    /\ targetMouthOpenness = 51

\* C28 as stated: onAirClick is emitted only on a frame where the hand is not pinching,
\* the click cooldown is not active, and the index-tip depth decreased by more than 0.03
\* relative to the immediately preceding processed frame of that hand.
C28_ClickAgainstPreviousFrame ==
    [][ (handOutcome' = "processed" /\ Len(Filter(handEvents', "onAirClick")) > 0)
        => /\ handInput'.pinchDistance >= PINCH_THRESHOLD
           /\ ~gestureState.clickCooldown
           /\ handInput # NoPosition
           /\ handInput.z - handInput'.z > CLICK_Z_THRESHOLD ]_vars

\* C29: on a frame that continues a pinch, onPinchZoom(lastPinchDistance /
\* currentPinchDistance) fires iff the scale differs from 1 by more than 0.05, and
\* lastPinchDistance becomes the current distance whether or not it fired; a frame that
\* starts a pinch and a frame that does not pinch fire no onPinchZoom.
C29_ZoomOnSustainedPinch ==
    [][ handOutcome' = "processed" =>
          LET zooms == Filter(handEvents', "onPinchZoom")
          IN  IF handInput' # NoPosition /\ handInput'.pinchDistance < 50
              THEN /\ gestureState'.lastPinchDistance = handInput'.pinchDistance
                   /\ IF ~gestureState.isPinching
                      THEN zooms = <<>>
                      ELSE LET last == gestureState.lastPinchDistance
                               cur == handInput'.pinchDistance
                           IN  IF 20 * Abs(last - cur) > cur
                               THEN zooms = <<Ev("onPinchZoom", "", last, cur)>>
                               ELSE zooms = <<>>
              ELSE zooms = <<>> ]_handVars

\* a sustained pinch whose thumb-index distance went from 0.04 to 0.03: scale 4/3
W_C29_ZoomFired ==
    /\ handOutcome = "processed"
    /\ handInput # NoPosition
    /\ handInput.pinchDistance = 30
    /\ gestureState.lastPinchDistance = 30
    /\ Filter(handEvents, "onPinchZoom") = <<Ev("onPinchZoom", "", 40, 30)>>

\* the swipe events of a callback sequence
Swipes(seq) ==
    SelectSeq(seq, LAMBDA e : e.cb = "onGestureChange" /\ e.g \in {"swipe_left", "swipe_right"})

\* C30: a frame emits at most one swipe: swipe_right iff the hand is not pinching, a
\* previous palm position exists and the palm moved by more than +0.15 horizontally
\* since the last frame; swipe_left iff it moved by less than -0.15 under the same
\* conditions; no swipe otherwise.
C30_OneSwipePerFrame ==
    [][ handOutcome' = "processed" =>
          LET eligible == /\ handInput' # NoPosition
                          /\ handInput'.pinchDistance >= 50
                          /\ gestureState.lastPosition # NoPosition
              dx == handInput'.palmX - gestureState.lastPosition[1]
          IN  IF eligible /\ dx > 150
              THEN Swipes(handEvents') = <<Ev("onGestureChange", "swipe_right", 0, 0)>>
              ELSE IF eligible /\ dx < -150
              THEN Swipes(handEvents') = <<Ev("onGestureChange", "swipe_left", 0, 0)>>
              ELSE Swipes(handEvents') = <<>> ]_handVars

\* a hand that does not pinch and whose palm moved from 0.6 to 0.4: swipe_left
W_C30_SwipeLeft ==
    /\ handOutcome = "processed"
    /\ handInput # NoPosition
    /\ handInput.palmX = 400
    /\ handInput.pinchDistance >= 50
    /\ Swipes(handEvents) = <<Ev("onGestureChange", "swipe_left", 0, 0)>>

\* C24 as stated: after dispose() a later initialize() that reports success yields a
\* recognizer whose processVideoFrame processes a new frame (dispose itself may be
\* called any number of times).
C24_InitializeSuccessMeansReady ==
    [][ (handOutcome = "init true" /\ handCall' # NoTime /\ handCall' # handLastVideoTime)
        => handOutcome' # "not ready" ]_vars

C27_MalformedAsNoHand ==
    [][ (handCall' # NoTime /\ handEvents' # <<>> /\ handFrame' \in {"nohand", "malformed"})
        => /\ gestureState' = DefaultGestureState
           /\ handEvents'[Len(handEvents')] = Ev("onGestureChange", "idle", 0, 0) ]_vars

\* C21: in every reachable state of the InteractionController the composite flag
\* isSpeakingAndPointing equals isSpeaking AND isPointing, under every interleaving of
\* handleGestureChange, handleSpeakingStart, handleSpeakingEnd and reset.
C21_CombinedFlagConsistent ==
    iaState.isSpeakingAndPointing = (iaIsSpeaking /\ iaState.isPointing)

\* speaking started while the hand already pointed
W_C21_SpeakingWhilePointing ==
    /\ iaOp.op = "handleSpeakingStart"
    /\ iaState.isPointing
    /\ iaState.isSpeakingAndPointing

\* C22 as stated: whenever the combined condition becomes true with a camera set, the
\* region selection runs and selectedRegion is the point of the ray cast at the current
\* pointer, whichever call made the condition true.
C22_SelectionWhenCombined ==
    [][ (~iaState.isSpeakingAndPointing /\ iaState'.isSpeakingAndPointing /\ camera')
        => /\ iaOp'.selected
           /\ iaState'.selectedRegion = RayAt(pointerPosition') ]_vars

C25_FetchKeepsInstance ==
    /\ [][ handOutcome' = "fetched" =>
             UNCHANGED <<handLandmarker, gestureState, handLastVideoTime>> ]_vars
    /\ [][ faceOutcome' = "fetched" =>
             UNCHANGED <<faceLandmarker, speakingState, smoothedExpression,
                         faceLastVideoTime>> ]_vars
    /\ [][ (mapperInstance /\ mapperInstance' /\ ~isListening) => ~isListening' ]_vars
    /\ [][ (iaInstance /\ iaOp'.op = "getInteractionController") =>
             UNCHANGED <<iaInstance, particleSystem, camera, currentGesture, iaIsSpeaking,
                         pointerPosition, targetScale, iaState>> ]_vars
    /\ [][ handInitialized =>
             /\ handOutcome' \notin {"init started", "init waiting", "init false"}
             /\ ~handInitializing => ~handInitializing'
             /\ handLandmarker' => handLandmarker ]_vars
    /\ [][ faceInitialized =>
             /\ faceOutcome' \notin {"init started", "init waiting", "init false"}
             /\ ~faceInitializing => ~faceInitializing'
             /\ faceLandmarker' => faceLandmarker ]_vars

\* every singleton was fetched again while it held something: the trackers their
\* landmarkers, the mapper its pause, the controller its camera
W_C25_FetchedInUse ==
    /\ handOutcome = "fetched" /\ handLandmarker
    /\ faceOutcome = "fetched" /\ faceLandmarker
    /\ mapperInstance /\ ~isListening
    /\ iaOp.op = "getInteractionController" /\ camera

\* C34: in every gesture state isDragging implies isPinching and pinchStartPosition is
\* non-null exactly when isPinching holds; a processed frame that does not pinch, with
\* or without a hand, leaves all three cleared.
C34_PinchFlagsTogether ==
    /\ [](/\ gestureState.isDragging => gestureState.isPinching
          /\ (gestureState.pinchStartPosition # NoPosition) = gestureState.isPinching)
    /\ [][ (handOutcome' = "processed" /\ handFrame' \in {"open", "nohand"}) =>
             /\ ~gestureState'.isPinching
             /\ ~gestureState'.isDragging
             /\ gestureState'.pinchStartPosition = NoPosition ]_handVars

\* a hand that had pinched (the distance of the pinch is still stored) showed its
\* fingers apart: the frame left the three fields cleared
W_C34_PinchEnded ==
    /\ handOutcome = "processed"
    /\ handFrame = "open"
    /\ handInput # NoPosition
    /\ gestureState.lastPinchDistance > 0
    /\ ~gestureState.isPinching /\ ~gestureState.isDragging
    /\ gestureState.pinchStartPosition = NoPosition

\* C35: a frame classified as pinching emits no onAirClick, and its gesture changes are
\* pinch and drag only: no click, swipe_left, swipe_right, open_palm or point.
C35_PinchFrameEvents ==
    [][ (handOutcome' = "processed" /\ handFrame' = "pinch") =>
          \A i \in 1..Len(handEvents') :
             /\ handEvents'[i].cb # "onAirClick"
             /\ handEvents'[i].cb = "onGestureChange"
                  => handEvents'[i].g \in {"pinch", "drag"} ]_handVars

\* a sustained pinch of a moving hand: the frame reported the drag
W_C35_PinchFrameWithDrag ==
    /\ handOutcome = "processed"
    /\ handFrame = "pinch"
    /\ Count(handEvents, "onGestureChange", "drag") = 1
    /\ Filter(handEvents, "onAirClick") = <<>>

\* C36: the first hand frame after a no-hand frame, or after construction, emits no
\* onAirDrag, no onPinchZoom and no swipe.
C36_FirstHandFrame ==
    [][ (handOutcome' = "processed" /\ handFrame \in {"nohand", "none"}
           /\ handFrame' \in {"pinch", "open"}) =>
          /\ Filter(handEvents', "onAirDrag") = <<>>
          /\ Filter(handEvents', "onPinchZoom") = <<>>
          /\ Swipes(handEvents') = <<>> ]_handVars

\* a frame with a hand at the right of the picture was processed by a tracker that
\* has never pinched since its last reset, and no swipe was reported
W_C36_HandShown ==
    /\ handOutcome = "processed"
    /\ handFrame = "open"
    /\ handInput # NoPosition
    /\ handInput.palmX = 600
    /\ gestureState.lastPinchDistance = 0
    /\ handLastVideoTime = 0
    /\ Swipes(handEvents) = <<>>

\* a call of initialize() made while a load runs starts no load of its own
OneLoadInFlight ==
    /\ [][ (handInitializing /\ handOutcome' # handOutcome)
             => handOutcome' # "init started" ]_handVars
    /\ [][ (faceInitializing /\ faceOutcome' # faceOutcome)
             => faceOutcome' # "init started" ]_faceVars

\* the step that ends a load with success resolves every waiting call with true
WaitersResolvedBySuccess ==
    /\ [][ (handInitializing /\ ~handInitialized /\ handInitialized')
             => handPollers' = 0 /\ handOutcome' = "init true" ]_handVars
    /\ [][ (faceInitializing /\ ~faceInitialized /\ faceInitialized')
             => facePollers' = 0 /\ faceOutcome' = "init true" ]_faceVars

C31_SweepHeldHalfSecond ==
    /\ [][ SwipeDispatched(controllerCalls') =>
             /\ \E side \in {-1, 1} :
                   controllerCalls' = <<Call("setTargetFocus", "", side * 1000, 0),
                                        Call("setBodyAngle", "", side * 20000, 0)>>
             /\ mapperTimers' = Append(mapperTimers, now + 500) ]_mapperVars
    /\ [][ (mapperTimers # <<>> /\ mapperTimers' = Tail(mapperTimers)) =>
             /\ controllerCalls' = <<Call("setTargetFocus", "", 0, 0),
                                     Call("setBodyAngle", "", 0, 0)>>
             /\ now >= Head(mapperTimers)
             /\ lastSwipeAt = NoTime \/ now >= lastSwipeAt + 500 ]_mapperVars

\* the conditions under which onPinchZoom reacts at all
ZoomReacts ==
    config.enabled /\ config.gestureReactionsEnabled /\ isListening /\ controllerReady

\* C33: onPinchZoom with a scale in the dead zone [0.8, 1.2] issues no call and leaves
\* the cooldown registry and lastGesture as they are; where the mapper reacts, a scale
\* below 0.8 sets the expression 'default' and sets no cooldown, a scale above 1.2 sets
\* 'surprised' and starts the pinch cooldown of 1000 ms.
C33_ZoomDeadZone ==
    [][ mapperOp'.op = "onPinchZoom" =>
          LET scale == mapperOp'.n
          IN  /\ lastGesture' = lastGesture
              /\ (scale >= 800 /\ scale <= 1200) =>
                    /\ controllerCalls' = <<>>
                    /\ gestureCooldown' = gestureCooldown
              /\ (ZoomReacts /\ scale < 800) =>
                    /\ controllerCalls' = <<Call("setExpression", "default", 0, 0)>>
                    /\ gestureCooldown' = gestureCooldown
              /\ (ZoomReacts /\ scale > 1200) =>
                    /\ controllerCalls' = <<Call("setExpression", "surprised", 0, 0)>>
                    /\ DOMAIN gestureCooldown' = DOMAIN gestureCooldown \cup {"pinch"}
                    /\ gestureCooldown'["pinch"] = now + 1000
                    /\ \A k \in DOMAIN gestureCooldown \ {"pinch"} :
                          gestureCooldown'[k] = gestureCooldown[k] ]_mapperVars

\* a reacting mapper, its pinch cooldown running, was called with the scale 0.8
W_C33_AtLowerLimit ==
    /\ mapperOp = MapperOp("onPinchZoom", "", 800)
    /\ ZoomReacts
    /\ controllerCalls = <<>>
    /\ "pinch" \in DOMAIN gestureCooldown
    /\ now < gestureCooldown["pinch"]

\* the six event handlers of the GestureMapper
MapperHandlers ==
    {"onHandDetected", "onHandPositionUpdate", "onGestureChange", "onAirClick",
     "onAirDrag", "onPinchZoom"}

\* C38: while the GestureMapper is paused or disabled, or the avatar controller is not
\* ready, none of its six event handlers issues an avatar command, and each leaves
\* lastGesture, lastHandPosition and the cooldown registry unchanged.
C38_InertHandlers ==
    [][ (/\ mapperOp'.op \in MapperHandlers
         /\ ~isListening \/ ~config.enabled \/ ~controllerReady) =>
          /\ controllerCalls' = <<>>
          /\ mapperTimers' = mapperTimers
          /\ lastGesture' = lastGesture
          /\ lastHandPosition' = lastHandPosition
          /\ gestureCooldown' = gestureCooldown ]_mapperVars

\* a click reached a paused mapper that had reacted to a swipe and a hand before: no
\* call, and the gesture, the position and the cooldown of the swipe are still there
W_C38_ClickWhilePaused ==
    /\ mapperOp.op = "onAirClick"
    /\ ~isListening /\ config.enabled /\ controllerReady
    /\ controllerCalls = <<>>
    /\ lastGesture = "swipe_left"
    /\ lastHandPosition # NoPosition
    /\ DOMAIN gestureCooldown = {"swipe"}

\* the difference below which a step of update is cut to nothing, thousandths
ScaleResolution == 1000 \div IA_DEFAULT_CONFIG.smoothingFactor

ForwardedOnChange ==
    [][ storeForwarded' # <<>> =>
          /\ Len(storeForwarded') = 1
          /\ storeForwarded'[1] # storeCurrentGesture
          /\ storeCurrentGesture' = storeForwarded'[1] ]_storeVars

\* C39: the store forwards a gesture to its callback only when it differs from the
\* stored current gesture, the listener never receives the same gesture twice in a
\* row, and the stored currentGesture always equals the last gesture forwarded.
C39_StoreForwardsChanges ==
    /\ ForwardedOnChange
    /\ [][ storeForwarded' # <<>> => storeForwarded'[1] # lastForwarded ]_storeVars
    /\ [](lastForwarded # "none" => storeCurrentGesture = lastForwarded)

\* C39, amended: the store forwards a gesture only when it differs from the stored
\* current gesture; as long as currentGesture has been written by forwarding triggers
\* alone (no setCurrentGesture, no trigger before a callback was registered), the
\* listener never receives the same gesture twice in a row and currentGesture equals
\* the last gesture forwarded.
C39_ForwardsWhileInStep ==
    /\ ForwardedOnChange
    /\ [][ (storeForwarded' # <<>> /\ ~storeBypassed)
             => storeForwarded'[1] # lastForwarded ]_storeVars
    /\ []((lastForwarded # "none" /\ ~storeBypassed)
             => storeCurrentGesture = lastForwarded)

\* the gesture went from idle to pinch and on to drag, each forwarded to the callback
\* registered before
W_C39_SecondChangeForwarded ==
    /\ storeCallback
    /\ ~storeBypassed
    /\ storeForwarded = <<"drag">>
    /\ storeCurrentGesture = "drag"
    /\ lastForwarded = "drag"

\* a name resolves on an avatar model when one of the three ways of setParameter takes
\* it: the core lists it or finds it, or a setter is called with it and does not throw
Resolves(im, name) ==
    \/ im.core /\ (name \in im.ids \/ (name \in im.index /\ name \notin im.lookupThrows))
    \/ im.float /\ name \notin im.floatThrows
    \/ im.setter /\ name \notin im.setterThrows

\* C32: in an updateFromFaceData call that reaches the avatar model, a channel none of
\* whose alias names resolves gets no parameter written, no exception leaves the call,
\* and the other channels are applied: setParameter runs for every enabled channel and
\* a channel whose first alias resolves is written.
C32_UnresolvedChannelSkipped ==
    [][ (/\ avatarOp'.op = "updateFromFaceData"
         /\ emConfig.enabled /\ emLastFace' /\ controllerReady /\ emModel'.present) =>
          LET im == emModel'
              channels == ChannelsOf(emConfig)
              written == { emWrites'[k].name : k \in 1..Len(emWrites') }
          IN  /\ ~emError'
              /\ \A i \in 1..Len(channels) :
                    LET names == PARAM_NAMES[channels[i]]
                    IN  /\ (\A n \in Range(names) : ~Resolves(im, n))
                             => written \cap Range(names) = {}
                        /\ Resolves(im, names[1]) => written \cap Range(names) # {}
                        /\ names[1] \in parameterCache' ]_avatarVars

\* a model without brows was updated with brow tracking on: the eleven other channels
\* were written, the two brows were not, and nothing was thrown
W_C32_BrowsSkipped ==
    /\ avatarOp = AvatarOp("updateFromFaceData", 1)
    /\ emModel = BrowlessModel
    /\ emConfig = EM_DEFAULT_CONFIG
    /\ ~emError
    /\ Len(emWrites) = 11
    /\ "ParamBrowLY" \in parameterCache
    /\ \A k \in 1..Len(emWrites) : emWrites[k].name \notin AliasesOf({"browLY", "browRY"})
    /\ emWrites[11].name = "ParamEyeBallY"

====
